---- MODULE Spec2Model ----
(***************************************************************************)
(* Result correlation and ranking engine (src/src/core/search_engine.py)   *)
(* and its fan-out coordinator (src/src/core/data_sources.py).             *)
(*                                                                         *)
(* Python floats are modelled as exact rationals <<n, d>> in lowest terms  *)
(* with d > 0.  Strings are sequences of one-character strings, so that    *)
(* lower(), strip(), split(), substring tests and the edit distance are    *)
(* computed as the code computes them.                                     *)
(***************************************************************************)
EXTENDS Integers, Sequences, FiniteSets, TLC

VARIABLES
    pc,            \* position of the one pipeline invocation of search()
    session,       \* DataSourceManager.session is set (the manager was entered)
    feed,          \* what each registered provider's search() does when called
    nlp,           \* the similarity spaCy reports for two distinct multi-word texts
    query,         \* the SearchQuery being processed
    tasks,         \* search_all_sources: the coroutines created, in registry order
    idx,           \* search_all_sources: index i of the await loop
    collected,     \* search_all_sources: the local list `results`
    fanout_error,  \* search_all_sources raised (caught by _execute_search)
    raw_results,   \* search(): raw_results, the value of _execute_search
    groups,        \* _process_results: entity_groups, in insertion order
    processed,     \* search(): processed_results as _process_results returned them
    scored,        \* search(): scored_results as _apply_ai_scoring returned them
    response,      \* the SearchResponse returned to the caller
    persistence,   \* what Redis and Elasticsearch do when search() writes to them
    redis,         \* the Redis entry "search_results:<query_id>", with its expiry
    es,            \* the documents indexed in 'leo_search_results'
    clock,         \* the time, in seconds
    cached,        \* what the last get_cached_results returned, and for which id
    leak_db,       \* LeakDatabaseScraper: the rows of leak_records, in rowid order
    leak_batch,    \* the records of the last save_records_to_database call
    leak_found,    \* what the last search_database returned, and for which query
    users,         \* MOCK_USERS: the lockout fields of each account
    login,         \* the last authenticate_user call and what it returned
    time_now,      \* datetime.now(), in seconds
    requests,      \* RateLimiter.requests: the recorded times of each user
    answers        \* the is_allowed calls made so far, with their answers

vars == <<pc, session, feed, nlp, query, tasks, idx, collected, fanout_error,
          raw_results, groups, processed, scored, response,
          persistence, redis, es, clock, cached, leak_db, leak_batch, leak_found,
          users, login, time_now, requests, answers>>

\* the state of the cache, of the clock, of the leak store and of security/auth.py
store_vars == <<persistence, redis, es, clock, cached, leak_db, leak_batch, leak_found,
                users, login, time_now, requests, answers>>

----------------------------------------------------------------------------
(* Rationals *)

RECURSIVE Gcd(_, _)
Gcd(a, b) == IF b = 0 THEN a ELSE Gcd(b, a % b)

Abs(n) == IF n < 0 THEN -n ELSE n

\* n/d in lowest terms, d > 0
Q(n, d) ==
    LET g == Gcd(Abs(n), Abs(d))
        s == IF d < 0 THEN -1 ELSE 1
    IN  <<(s * n) \div g, (s * d) \div g>>

QInt(n) == <<n, 1>>
QAdd(a, b) == Q(a[1] * b[2] + b[1] * a[2], a[2] * b[2])
QSub(a, b) == Q(a[1] * b[2] - b[1] * a[2], a[2] * b[2])
QMul(a, b) == Q(a[1] * b[1], a[2] * b[2])
QDiv(a, b) == Q(a[1] * b[2], a[2] * b[1])
QLt(a, b) == a[1] * b[2] < b[1] * a[2]
QLe(a, b) == a[1] * b[2] <= b[1] * a[2]
QMax(a, b) == IF QLt(a, b) THEN b ELSE a
QMin(a, b) == IF QLt(b, a) THEN b ELSE a

\* np.mean of a non-empty sequence of rationals
RECURSIVE QSum(_)
QSum(s) == IF s = <<>> THEN QInt(0) ELSE QAdd(s[1], QSum(Tail(s)))

QMean(s) == QDiv(QSum(s), QInt(Len(s)))

----------------------------------------------------------------------------
(* Strings: str.lower, str.strip, str.split, `in` *)

LowerChar(c) ==
    CASE c = "A" -> "a"
      [] c = "B" -> "b"
      [] c = "C" -> "c"
      [] c = "D" -> "d"
      [] OTHER -> c

Lower(s) == [i \in 1..Len(s) |-> LowerChar(s[i])]

RECURSIVE LStrip(_)
LStrip(s) == IF s # <<>> /\ s[1] = " " THEN LStrip(Tail(s)) ELSE s

RECURSIVE RStrip(_)
RStrip(s) ==
    IF s # <<>> /\ s[Len(s)] = " " THEN RStrip(SubSeq(s, 1, Len(s) - 1)) ELSE s

Strip(s) == RStrip(LStrip(s))

\* len(s.split()): the number of maximal runs of non-space characters
WordCount(s) ==
    Cardinality({i \in 1..Len(s) : s[i] # " " /\ (i = 1 \/ s[i - 1] = " ")})

\* a in b
IsSubstring(a, b) ==
    \E i \in 0..(Len(b) - Len(a)) : SubSeq(b, i + 1, i + Len(a)) = a

\* s.split('@')[0]
RECURSIVE BeforeAt(_)
BeforeAt(s) ==
    IF s = <<>> \/ s[1] = "@" THEN <<>> ELSE <<s[1]>> \o BeforeAt(Tail(s))

HasAt(s) == \E i \in 1..Len(s) : s[i] = "@"

----------------------------------------------------------------------------
(* Entity clustering: search_engine.py, _group_results_by_entity and below *)

\* raw_data is a dict: a function whose DOMAIN is the set of keys present.
\* Values of the four comparison keys are strings; the value of 'timestamp'
\* is modelled by (datetime.now() - raw_data['timestamp']).days.
ComparisonFields == <<"name", "email", "phone", "address">>

_extract_comparison_fields(result) ==
    [f \in {ComparisonFields[i] : i \in 1..4} \cap DOMAIN result.raw_data
        |-> result.raw_data[f]]

\* the inner loop over j of _levenshtein_similarity; cur is current_row so far
RECURSIVE LevRow(_, _, _, _)
LevRow(previous_row, c1, str2, cur) ==
    IF Len(cur) = Len(str2) + 1 THEN cur
    ELSE LET j == Len(cur)
             insertions == previous_row[j + 1] + 1
             deletions == cur[j] + 1
             substitutions == previous_row[j] + (IF c1 # str2[j] THEN 1 ELSE 0)
             m1 == IF insertions < deletions THEN insertions ELSE deletions
             m == IF m1 < substitutions THEN m1 ELSE substitutions
         IN  LevRow(previous_row, c1, str2, Append(cur, m))

\* the outer loop over i of _levenshtein_similarity
RECURSIVE LevRows(_, _, _, _)
LevRows(previous_row, str1, str2, i) ==
    IF i > Len(str1) THEN previous_row
    ELSE LevRows(LevRow(previous_row, str1[i], str2, <<i>>), str1, str2, i + 1)

_levenshtein_similarity(a, b) ==
    LET str1 == IF Len(a) < Len(b) THEN b ELSE a
        str2 == IF Len(a) < Len(b) THEN a ELSE b
    IN  IF Len(str2) = 0 THEN QInt(0)
        ELSE LET previous_row == LevRows([k \in 1..(Len(str2) + 1) |-> k - 1],
                                         str1, str2, 1)
                 max_len == IF Len(str1) > Len(str2) THEN Len(str1) ELSE Len(str2)
                 distance == previous_row[Len(previous_row)]
             IN  QSub(QInt(1), Q(distance, max_len))

\* doc1.similarity(doc2) of the spaCy model: outside the repository, symmetric,
\* fixed for one run; the value for each pair of texts is drawn in Init.
NlpSimilarity(str1, str2) == nlp[{str1, str2}]

_calculate_field_similarity(value1, value2) ==
    IF value1 = <<>> \/ value2 = <<>> THEN QInt(0)
    ELSE LET str1 == Strip(Lower(value1))
             str2 == Strip(Lower(value2))
         IN  IF str1 = str2 THEN QInt(1)
             ELSE IF WordCount(str1) > 1 /\ WordCount(str2) > 1
                  THEN NlpSimilarity(str1, str2)
                  ELSE _levenshtein_similarity(str1, str2)

\* a slip: results with nothing to compare count as the same entity
EntitySimilarityDefaultOne(result1, result2) ==
    LET fields1 == _extract_comparison_fields(result1)
        fields2 == _extract_comparison_fields(result2)
        shared == SelectSeq(ComparisonFields,
                            LAMBDA f : f \in DOMAIN fields1 /\ f \in DOMAIN fields2)
        similarities == [i \in 1..Len(shared) |->
                            _calculate_field_similarity(fields1[shared[i]],
                                                        fields2[shared[i]])]
    IN  IF similarities # <<>> THEN QMean(similarities) ELSE QInt(1)

_calculate_entity_similarity(result1, result2) ==
    LET fields1 == _extract_comparison_fields(result1)
        fields2 == _extract_comparison_fields(result2)
        shared == SelectSeq(ComparisonFields,
                            LAMBDA f : f \in DOMAIN fields1 /\ f \in DOMAIN fields2)
        similarities == [i \in 1..Len(shared) |->
                            _calculate_field_similarity(fields1[shared[i]],
                                                        fields2[shared[i]])]
    IN  IF similarities # <<>> THEN QMean(similarities) ELSE QInt(0)

\* the similarity a result must strictly exceed to join a group
MatchThreshold == Q(8, 10)

\* a slip: the best group is taken without the match threshold
RECURSIVE BestGroupNoThreshold(_, _, _, _, _)
BestGroupNoThreshold(result, grps, k, best_group, best_similarity) ==
    IF k > Len(grps) THEN best_group
    ELSE LET fields1 == _extract_comparison_fields(result)
             fields2 == _extract_comparison_fields(grps[k][1])
             shared == SelectSeq(ComparisonFields,
                           LAMBDA f : f \in DOMAIN fields1 /\ f \in DOMAIN fields2)
             sims == [i \in 1..Len(shared) |->
                         _calculate_field_similarity(fields1[shared[i]],
                                                     fields2[shared[i]])]
             similarity == IF sims # <<>> THEN QMean(sims) ELSE QInt(0)
         IN  IF QLt(best_similarity, similarity)
             THEN BestGroupNoThreshold(result, grps, k + 1, k, similarity)
             ELSE BestGroupNoThreshold(result, grps, k + 1, best_group, best_similarity)

\* a slip: a later group of equal similarity replaces the best one
RECURSIVE BestGroupLatestTie(_, _, _, _, _)
BestGroupLatestTie(result, grps, k, best_group, best_similarity) ==
    IF k > Len(grps) THEN best_group
    ELSE LET similarity == _calculate_entity_similarity(result, grps[k][1])
         IN  IF QLe(best_similarity, similarity) /\ QLt(MatchThreshold, similarity)
             THEN BestGroupLatestTie(result, grps, k + 1, k, similarity)
             ELSE BestGroupLatestTie(result, grps, k + 1, best_group, best_similarity)

\* the loop over groups.items(): best_group (0 is None) and best_similarity
\* after the groups from position k on have been compared
RECURSIVE BestGroup(_, _, _, _, _)
BestGroup(result, grps, k, best_group, best_similarity) ==
    IF k > Len(grps) THEN best_group
    ELSE LET similarity == _calculate_entity_similarity(result, grps[k][1])
         IN  IF QLt(best_similarity, similarity) /\ QLt(MatchThreshold, similarity)
             THEN BestGroup(result, grps, k + 1, k, similarity)
             ELSE BestGroup(result, grps, k + 1, best_group, best_similarity)

\* groups: the dict in insertion order; the group at position k has the key
\* "entity_<k-1>", since a key is f"entity_{len(groups)}" and none is removed
RECURSIVE GroupLoop(_, _, _)
GroupLoop(results, i, grps) ==
    IF i > Len(results) THEN grps
    ELSE LET best_group == BestGroup(results[i], grps, 1, 0, QInt(0))
         IN  IF best_group # 0
             THEN GroupLoop(results, i + 1,
                      [grps EXCEPT ![best_group] = Append(@, results[i])])
             ELSE GroupLoop(results, i + 1, Append(grps, <<results[i]>>))

_group_results_by_entity(results) == GroupLoop(results, 1, <<>>)

----------------------------------------------------------------------------
(* Correlation: _process_results, _process_entity_group, _merge_entity_data *)

\* d[k] = v on a dict
Put(d, k, v) == [x \in DOMAIN d \cup {k} |-> IF x = k THEN v ELSE d[x]]

\* isinstance(value, list) and isinstance(value, dict) for the value of a raw
\* key: the value of 'phones' is a list of texts, [list |-> ...], the value of
\* 'employment' a dict of texts, [dict |-> ...]; the other values drawn are
\* strings, ages and tuples.
IsInstance(key, type) ==
    \/ type = "list" /\ key = "phones"
    \/ type = "dict" /\ key = "employment"

\* The loop over results: a key keeps the value of the first result that has
\* it; a list is extended by the lists of later results and a dict updated
\* with their dicts.
RECURSIVE MergeLoop(_, _, _)
MergeLoop(results, i, merged) ==
    IF i > Len(results) THEN merged
    ELSE LET raw == results[i].raw_data
         IN  MergeLoop(results, i + 1,
                 [k \in DOMAIN merged \cup DOMAIN raw |->
                     IF k \notin DOMAIN merged THEN raw[k]
                     ELSE IF k \notin DOMAIN raw THEN merged[k]
                     ELSE IF IsInstance(k, "list")
                          THEN [list |-> merged[k].list \o raw[k].list]
                     ELSE IF IsInstance(k, "dict")
                          THEN [dict |->
                                   [x \in DOMAIN merged[k].dict \cup DOMAIN raw[k].dict |->
                                       IF x \in DOMAIN raw[k].dict THEN raw[k].dict[x]
                                       ELSE merged[k].dict[x]]]
                     ELSE merged[k]])

_merge_entity_data(results) == MergeLoop(results, 1, <<>>)

\* a slip: the first member's confidence instead of the mean
GroupConfidenceFirst(group_results) == group_results[1].confidence

\* np.mean([r.confidence for r in group_results])
GroupConfidence(group_results) ==
    QMean([i \in 1..Len(group_results) |-> group_results[i].confidence])

\* The synthetic result is a new object; its id is negative, the ids of the
\* providers' results are positive.  Its timestamp is datetime.now(); every
\* timestamp here is the same day.  merged[key] = value stores the list or
\* dict object of the first member that has the key, so extend and update
\* change that member's raw_data too: it ends with the merged value.
_process_entity_group(entity_id, group_results) ==
    LET merged_data == _merge_entity_data(group_results)
        enhanced_result ==
            [id |-> 0 - (entity_id + 1),
             source |-> "entity_correlation",
             data_type |-> "correlated_entity",
             confidence |-> GroupConfidence(group_results),
             raw_data |-> merged_data,
             timestamp |-> 1,
             metadata |-> [entity_id |-> entity_id,
                           source_count |-> Len(group_results),
                           sources |-> [i \in 1..Len(group_results) |->
                                           group_results[i].source],
                           correlation_method |-> "ai_enhanced"]]
        shared(i, k) ==
            /\ IsInstance(k, "list") \/ IsInstance(k, "dict")
            /\ \A j \in 1..(i - 1) : k \notin DOMAIN group_results[j].raw_data
    IN  <<enhanced_result>> \o
        [i \in 1..Len(group_results) |->
            [group_results[i] EXCEPT
                !.raw_data = [k \in DOMAIN @ |->
                                 IF shared(i, k) THEN merged_data[k] ELSE @[k]],
                !.metadata =
                    Put(Put(@, "correlated_entity_id", entity_id),
                        "correlation_confidence", enhanced_result.confidence)]]

\* a slip: no synthetic result for a cluster of one member
RECURSIVE ProcessLoopSkipSingletons(_, _)
ProcessLoopSkipSingletons(entity_groups, k) ==
    IF k > Len(entity_groups) THEN <<>>
    ELSE (IF Len(entity_groups[k]) = 1
          THEN Tail(_process_entity_group(k - 1, entity_groups[k]))
          ELSE _process_entity_group(k - 1, entity_groups[k]))
         \o ProcessLoopSkipSingletons(entity_groups, k + 1)

RECURSIVE ProcessLoop(_, _)
ProcessLoop(entity_groups, k) ==
    IF k > Len(entity_groups) THEN <<>>
    ELSE _process_entity_group(k - 1, entity_groups[k])
         \o ProcessLoop(entity_groups, k + 1)

_process_results(results) == ProcessLoop(_group_results_by_entity(results), 1)

----------------------------------------------------------------------------
(* Scoring: _apply_ai_scoring and the three sub-scores *)

IsDigit(c) == c \in {"0", "1", "2", "3", "4", "5", "6", "7", "8", "9"}

\* re.match(r'^\+?[\d\s\-\(\)]+$', phone)
PhoneShaped(phone) ==
    LET body == IF phone # <<>> /\ phone[1] = "+" THEN Tail(phone) ELSE phone
    IN  /\ body # <<>>
        /\ \A i \in 1..Len(body) : IsDigit(body[i]) \/ body[i] \in {" ", "-", "(", ")"}

_assess_data_consistency(data) ==
    LET name_check == "name" \in DOMAIN data /\ "email" \in DOMAIN data
        email_name == IF name_check /\ HasAt(data["email"])
                      THEN BeforeAt(data["email"]) ELSE <<>>
        name_conflict == /\ name_check
                         /\ email_name # <<>>
                         /\ ~IsSubstring(Lower(data["name"]), Lower(email_name))
        phone_check == "phone" \in DOMAIN data
        phone_conflict == phone_check /\ ~PhoneShaped(data["phone"])
        total_checks == (IF name_check THEN 1 ELSE 0) + (IF phone_check THEN 1 ELSE 0)
        conflicts == (IF name_conflict THEN 1 ELSE 0) + (IF phone_conflict THEN 1 ELSE 0)
    IN  IF total_checks > 0 THEN QSub(QInt(1), Q(conflicts, total_checks))
        ELSE QInt(0)

DaysPerYear == 365

\* a slip: the freshness is not floored at 0
QualityWithoutFloor(result) ==
    LET raw_data == result.raw_data
        present == {i \in 1..4 : ComparisonFields[i] \in DOMAIN raw_data}
        completeness == Q(Cardinality(present), 4)
        consistency == _assess_data_consistency(raw_data)
    IN  QAdd(QAdd(QMul(completeness, Q(4, 10)),
                  IF "timestamp" \in DOMAIN raw_data
                  THEN QMul(QSub(QInt(1), Q(raw_data["timestamp"], DaysPerYear)),
                            Q(3, 10))
                  ELSE QInt(0)),
             QMul(consistency, Q(3, 10)))

_assess_data_quality(result) ==
    LET raw_data == result.raw_data
        present == {i \in 1..4 : ComparisonFields[i] \in DOMAIN raw_data}
        completeness == Q(Cardinality(present), 4)
        freshness == IF "timestamp" \in DOMAIN raw_data
                     THEN QMax(QInt(0),
                               QSub(QInt(1), Q(raw_data["timestamp"], DaysPerYear)))
                     ELSE QInt(0)
        consistency == _assess_data_consistency(raw_data)
    IN  QAdd(QAdd(QMul(completeness, Q(4, 10)),
                  IF "timestamp" \in DOMAIN raw_data
                  THEN QMul(freshness, Q(3, 10)) ELSE QInt(0)),
             QMul(consistency, Q(3, 10)))

_assess_relevance(result, q) ==
    LET query_params == q.parameters
        result_data == result.raw_data
        compared == {i \in 1..4 : /\ ComparisonFields[i] \in DOMAIN query_params
                                  /\ ComparisonFields[i] \in DOMAIN result_data}
        total_fields == Cardinality(compared)
        exact_matches == Cardinality({i \in compared :
            Lower(query_params[ComparisonFields[i]])
                = Lower(result_data[ComparisonFields[i]])})
        partial_matches == Cardinality({i \in compared :
            LET query_val == Lower(query_params[ComparisonFields[i]])
                result_val == Lower(result_data[ComparisonFields[i]])
            IN  IsSubstring(query_val, result_val) \/ IsSubstring(result_val, query_val)})
    IN  IF total_fields > 0
        THEN QAdd(QMul(Q(exact_matches, total_fields), Q(6, 10)),
                  QMul(Q(partial_matches, total_fields), Q(4, 10)))
        ELSE QInt(0)

_assess_source_reliability(source) ==
    CASE source = "court_records" -> Q(95, 100)
      [] source = "property_records" -> Q(90, 100)
      [] source = "government_apis" -> Q(85, 100)
      [] source = "business_records" -> Q(80, 100)
      [] source = "phone_directories" -> Q(75, 100)
      [] source = "social_media" -> Q(60, 100)
      [] source = "news_media" -> Q(70, 100)
      [] source = "entity_correlation" -> Q(85, 100)
      [] OTHER -> Q(50, 100)

_calculate_ai_confidence(result, q) ==
    LET quality_score == _assess_data_quality(result)
        relevance_score == _assess_relevance(result, q)
        reliability_score == _assess_source_reliability(result.source)
        score == QAdd(QAdd(QMul(quality_score, Q(3, 10)),
                           QMul(relevance_score, Q(4, 10))),
                      QMul(reliability_score, Q(3, 10)))
    IN  QMin(score, QInt(1))

\* a slip: the composite replaces the confidence instead of being blended
ScoreOneOverwrite(result, q) ==
    LET ai_score == _calculate_ai_confidence(result, q)
    IN  [result EXCEPT
            !.confidence = ai_score,
            !.metadata = Put(Put(@, "ai_score", ai_score),
                             "ai_scoring_method", "multi_factor_analysis")]

\* the body of the loop of _apply_ai_scoring, for one result
ScoreOne(result, q) ==
    LET ai_score == _calculate_ai_confidence(result, q)
    IN  [result EXCEPT
            !.confidence = QDiv(QAdd(@, ai_score), QInt(2)),
            !.metadata = Put(Put(@, "ai_score", ai_score),
                             "ai_scoring_method", "multi_factor_analysis")]

_apply_ai_scoring(results, q) == [i \in 1..Len(results) |-> ScoreOne(results[i], q)]

----------------------------------------------------------------------------
(* Filter and rank: _filter_and_rank_results *)

\* the sort key (x.confidence, x.metadata.get('ai_score', 0))
SortKey(x) ==
    <<x.confidence,
      IF "ai_score" \in DOMAIN x.metadata THEN x.metadata["ai_score"] ELSE QInt(0)>>

\* tuple comparison k1 < k2
KeyLt(k1, k2) == QLt(k1[1], k2[1]) \/ (k1[1] = k2[1] /\ QLt(k1[2], k2[2]))

\* a slip: x goes before the elements whose key equals its own
RECURSIVE InsertDescBeforeEqual(_, _)
InsertDescBeforeEqual(sorted, x) ==
    IF sorted = <<>> THEN <<x>>
    ELSE IF ~KeyLt(SortKey(x), SortKey(sorted[1])) THEN <<x>> \o sorted
         ELSE <<sorted[1]>> \o InsertDescBeforeEqual(Tail(sorted), x)

\* list.sort(key, reverse=True) is stable: x goes after every element whose
\* key is not smaller than its own
RECURSIVE InsertDesc(_, _)
InsertDesc(sorted, x) ==
    IF sorted = <<>> THEN <<x>>
    ELSE IF KeyLt(SortKey(sorted[1]), SortKey(x)) THEN <<x>> \o sorted
         ELSE <<sorted[1]>> \o InsertDesc(Tail(sorted), x)

RECURSIVE SortDesc(_, _)
SortDesc(s, i) ==
    IF i = 0 THEN <<>> ELSE InsertDesc(SortDesc(s, i - 1), s[i])

\* s[:n] of a Python list, n any integer
Slice(s, n) ==
    IF n >= 0 THEN SubSeq(s, 1, IF n < Len(s) THEN n ELSE Len(s))
    ELSE SubSeq(s, 1, Len(s) + n)

\* a slip: the confidence threshold is not applied
RankWithoutThreshold(results, q) ==
    LET ranked == SortDesc(results, Len(results))
    IN  IF q.max_results # 0 THEN Slice(ranked, q.max_results) ELSE ranked

_filter_and_rank_results(results, q) ==
    LET filtered == SelectSeq(results,
                        LAMBDA r : QLe(q.confidence_threshold, r.confidence))
        ranked == SortDesc(filtered, Len(filtered))
    IN  IF q.max_results # 0 THEN Slice(ranked, q.max_results) ELSE ranked

----------------------------------------------------------------------------
(* Query normalisation: _enhance_query and the per-field enhancements *)

\* Python's None
None == "None"

\* A call that returns has [raised |-> FALSE, value |-> ...]; one that raises
\* has [raised |-> TRUE].
Returned(v) == [raised |-> FALSE, value |-> v]
Raised == [raised |-> TRUE]

\* d.update(e)
Update(d, e) == [k \in DOMAIN d \cup DOMAIN e |-> IF k \in DOMAIN e THEN e[k] ELSE d[k]]

\* s.split(sep), as the list of the pieces
RECURSIVE SplitOn(_, _, _)
SplitOn(s, sep, piece) ==
    IF s = <<>> THEN <<piece>>
    ELSE IF s[1] = sep THEN <<piece>> \o SplitOn(Tail(s), sep, <<>>)
         ELSE SplitOn(Tail(s), sep, Append(piece, s[1]))

Split(s, sep) == SplitOn(s, sep, <<>>)

\* _enhance_name_search ends in self._generate_phonetic_variations(name); the
\* class defines no such method and has no base class, so the attribute
\* lookup raises AttributeError after the variations have been built.
_enhance_name_search(name) == Raised

\* re.sub(r'[^\d+]', '', phone)
CleanPhone(phone) == SelectSeq(phone, LAMBDA c : IsDigit(c) \/ c = "+")

PhoneLen == 10

_enhance_phone_search(phone) ==
    LET clean_phone == CleanPhone(phone)
        base == [clean_phone |-> clean_phone]
    IN  Returned(
            IF Len(clean_phone) = PhoneLen
            THEN Put(base, "phone_variations",
                     <<clean_phone,
                       SubSeq(clean_phone, 1, 3) \o <<"-">> \o SubSeq(clean_phone, 4, 6)
                           \o <<"-">> \o SubSeq(clean_phone, 7, 10),
                       <<"(">> \o SubSeq(clean_phone, 1, 3) \o <<")", " ">>
                           \o SubSeq(clean_phone, 4, 6) \o <<"-">>
                           \o SubSeq(clean_phone, 7, 10),
                       <<"+", "1">> \o clean_phone>>)
            ELSE base)

\* username, domain = email.split('@') raises ValueError unless there are
\* exactly two pieces
_enhance_email_search(email) ==
    IF ~HasAt(email) THEN Returned(<<>>)
    ELSE LET pieces == Split(email, "@")
         IN  IF Len(pieces) # 2 THEN Raised
             ELSE LET username == pieces[1]
                      domain == pieces[2]
                  IN  Returned([email_username |-> username,
                                email_domain |-> domain,
                                email_variations |->
                                    <<email,
                                      Lower(email),
                                      username \o <<"@">> \o Lower(domain),
                                      Lower(username) \o <<"@">> \o Lower(domain)>>])

IsWordChar(c) ==
    IsDigit(c) \/ c \in {"a", "b", "c", "d", "x", "A", "B", "C", "D", "_"}

\* \b between positions i - 1 and i of s
WordBoundary(s, i) ==
    LET before == i > 1 /\ i - 1 <= Len(s) /\ IsWordChar(s[i - 1])
        after == i >= 1 /\ i <= Len(s) /\ IsWordChar(s[i])
    IN  before # after

DigitsAt(s, i, n) == i + n - 1 <= Len(s) /\ \A k \in i..(i + n - 1) : IsDigit(s[k])

ZipLen == 5
ZipPlus == 4

\* the text re.search(r'\b\d{5}(?:-\d{4})?\b', address) matches from position
\* i, or <<>> when it does not match there
ZipAt(s, i) ==
    IF ~(WordBoundary(s, i) /\ DigitsAt(s, i, ZipLen)) THEN <<>>
    ELSE IF /\ i + ZipLen <= Len(s)
            /\ s[i + ZipLen] = "-"
            /\ DigitsAt(s, i + ZipLen + 1, ZipPlus)
            /\ WordBoundary(s, i + ZipLen + 1 + ZipPlus)
         THEN SubSeq(s, i, i + ZipLen + ZipPlus)
         ELSE IF WordBoundary(s, i + ZipLen) THEN SubSeq(s, i, i + ZipLen - 1)
              ELSE <<>>

\* zip_match.group() of the leftmost match, or <<>> when there is none
ZipSearch(s) ==
    LET hits == {i \in 1..Len(s) : ZipAt(s, i) # <<>>}
    IN  IF hits = {} THEN <<>>
        ELSE ZipAt(s, CHOOSE i \in hits : \A j \in hits : i <= j)

_parse_address(address) ==
    LET parts == Split(address, ",")
        parsed == [street_address |-> Strip(parts[1]),
                   city |-> IF Len(parts) > 1 THEN Strip(parts[2]) ELSE <<>>,
                   state |-> IF Len(parts) > 2 THEN Strip(parts[3]) ELSE <<>>,
                   zip_code |-> IF Len(parts) > 3 THEN Strip(parts[4]) ELSE <<>>]
        zip_match == ZipSearch(address)
    IN  IF zip_match # <<>> THEN [parsed EXCEPT !.zip_code = zip_match] ELSE parsed

_geocode_address(address) ==
    [latitude |-> None, longitude |-> None, geographic_region |-> None]

_enhance_address_search(address) ==
    Returned(Update(_parse_address(address), _geocode_address(address)))

\* self._get_zip_radius and self._get_metro_area are not defined either
_enhance_geographic_scope(scope) ==
    IF "zip_code" \in DOMAIN scope \/ "city" \in DOMAIN scope THEN Raised
    ELSE Returned(<<>>)

\* One enhancement step of _enhance_query: acc is the outcome so far, key the
\* parameter looked for, e the outcome of its enhancement.
Step(acc, present, e) ==
    IF acc.raised \/ ~present THEN acc
    ELSE IF e.raised THEN Raised
         ELSE Returned(Update(acc.value, e.value))

\* The enhanced parameters, or Raised when an enhancement raises.  A
\* geographic_scope of None and an empty one are both falsy: both are <<>>.
_enhance_query(q) ==
    LET p0 == Returned(q.parameters)
        p1 == Step(p0, "name" \in DOMAIN q.parameters,
                   IF "name" \in DOMAIN q.parameters
                   THEN _enhance_name_search(q.parameters["name"]) ELSE Raised)
        p2 == Step(p1, ~p1.raised /\ "phone" \in DOMAIN p1.value,
                   IF ~p1.raised /\ "phone" \in DOMAIN p1.value
                   THEN _enhance_phone_search(p1.value["phone"]) ELSE Raised)
        p3 == Step(p2, ~p2.raised /\ "email" \in DOMAIN p2.value,
                   IF ~p2.raised /\ "email" \in DOMAIN p2.value
                   THEN _enhance_email_search(p2.value["email"]) ELSE Raised)
        p4 == Step(p3, ~p3.raised /\ "address" \in DOMAIN p3.value,
                   IF ~p3.raised /\ "address" \in DOMAIN p3.value
                   THEN _enhance_address_search(p3.value["address"]) ELSE Raised)
        p5 == Step(p4, q.geographic_scope # <<>>,
                   _enhance_geographic_scope(q.geographic_scope))
    IN  p5

----------------------------------------------------------------------------
(* Fan-out: DataSourceManager.search_all_sources and _execute_search *)

\* An optional value: None, or a value that is present
NoneV == [is_none |-> TRUE]
Some(v) == [is_none |-> FALSE, v |-> v]

\* The part of self.sources modelled, in the order initialize_sources
\* registers it
Registry == <<"social_media", "phone_directories", "email_databases">>

Providers == {Registry[i] : i \in 1..Len(Registry)}

can_handle_query(source_name, q) ==
    CASE source_name = "social_media" ->
             \E key \in {"name", "email", "username"} : key \in DOMAIN q
      [] source_name = "phone_directories" -> "phone" \in DOMAIN q
      [] source_name = "email_databases" -> "email" \in DOMAIN q

\* A provider is a collaborator: feed[p] is what p's search does for this
\* query.  kind is "raise_call" (the call source.search(query, session) itself
\* raises, as it does for a search that does not take the session argument or
\* is not a coroutine function), "raise_await" (the coroutine raises when
\* awaited), "none" (it returns None), "single" (it returns one SearchResult)
\* or "list" (it returns a list); results are the SearchResults returned.
\* A provider of kind "hang" never completes its coroutine: `await task` has
\* no timeout and does not return.
Capable(params) == SelectSeq(Registry, LAMBDA p : can_handle_query(p, params))

\* the first loop: the first capable provider whose call raises, if any
CallRaises(params) ==
    \E i \in 1..Len(Capable(params)) : feed[Capable(params)[i]].kind = "raise_call"

\* the SearchResult objects a provider returns, given identities after the
\* ones collected so far
WithIds(results, n) ==
    [i \in 1..Len(results) |->
        [id |-> n + i,
         source |-> results[i].source,
         data_type |-> results[i].data_type,
         confidence |-> results[i].confidence,
         raw_data |-> results[i].raw_data,
         timestamp |-> results[i].timestamp,
         metadata |-> results[i].metadata]]

\* the body of the try of the second loop for task i, up to the sleep:
\* the list `results` afterwards
AfterAwait(results, outcome) ==
    IF outcome.kind \in {"list", "single"} /\ outcome.results # <<>>
    THEN results \o WithIds(outcome.results, Len(results))
    ELSE results

\* _apply_query_filters; Raised when an operation on a None entry raises.
\* A date_range entry is [start, end], 0 standing for None or a missing key.
_apply_query_filters(results, filters) ==
    LET date_none == "date_range" \in DOMAIN filters /\ filters["date_range"].is_none
        start_date == IF "date_range" \in DOMAIN filters
                      THEN filters["date_range"].v.start ELSE 0
        end_date == IF "date_range" \in DOMAIN filters
                    THEN filters["date_range"].v.end ELSE 0
        f1 == IF start_date # 0 \/ end_date # 0
              THEN SelectSeq(results,
                       LAMBDA r : /\ (start_date = 0 \/ r.timestamp >= start_date)
                                  /\ (end_date = 0 \/ r.timestamp <= end_date))
              ELSE results
        f2 == IF "sources" \in DOMAIN filters /\ ~filters["sources"].is_none
              THEN SelectSeq(f1, LAMBDA r : r.source \in filters["sources"].v)
              ELSE f1
        f3 == IF "data_types" \in DOMAIN filters /\ ~filters["data_types"].is_none
              THEN SelectSeq(f2, LAMBDA r : r.data_type \in filters["data_types"].v)
              ELSE f2
        bad == \/ date_none
               \/ "sources" \in DOMAIN filters /\ filters["sources"].is_none
                    /\ f1 # <<>>
               \/ "data_types" \in DOMAIN filters /\ filters["data_types"].is_none
                    /\ f2 # <<>>
    IN  IF bad THEN Raised ELSE Returned(f3)

\* _execute_search once search_all_sources has returned `results`
ExecuteReturn(results, q) ==
    LET filtered == _apply_query_filters(results, q.filters)
    IN  IF filtered.raised THEN <<>> ELSE filtered.value

----------------------------------------------------------------------------
(* Persistence: _cache_results, _index_results_elasticsearch, get_cached_results *)

\* the TTL handed to redis.setex, in seconds
CacheTTL == 3600

\* the latest time, in seconds, that the clock reaches
MaxClock == 7200
\* the lengths of time that pass in one step: just under, exactly and just
\* over the TTL of the cache
ClockSteps == {CacheTTL - 1, CacheTTL, CacheTTL + 1}

\* datetime.isoformat() and datetime.fromisoformat(): the text of a datetime,
\* and the datetime of such a text
isoformat(t) == [iso |-> t]
fromisoformat(text) == text.iso

_serialize_result(result) ==
    [source |-> result.source,
     data_type |-> result.data_type,
     confidence |-> result.confidence,
     raw_data |-> result.raw_data,
     timestamp |-> isoformat(result.timestamp),
     metadata |-> result.metadata]

\* The raw_data values by key: 'timestamp' holds a datetime (what
\* _assess_data_quality subtracts from now), 'aliases' holds a tuple of texts
\* [tuple |-> items], every other key holds a text.
\* json.dumps has no encoding for a datetime
JsonSerializable(raw_data) == "timestamp" \notin DOMAIN raw_data

\* json.dumps writes a tuple as an array
JsonValue(key, value) == IF key = "aliases" THEN [array |-> value.tuple] ELSE value

\* json.loads reads an array as a list
PyValue(key, value) == IF key = "aliases" THEN [list |-> value.array] ELSE value

json_dumps(cache_data) ==
    IF \E i \in 1..Len(cache_data.results) :
            ~JsonSerializable(cache_data.results[i].raw_data)
    THEN Raised
    ELSE Returned([results |->
                      [i \in 1..Len(cache_data.results) |->
                          LET r == cache_data.results[i]
                          IN  [r EXCEPT !.raw_data =
                                  [k \in DOMAIN r.raw_data |-> JsonValue(k, r.raw_data[k])]]],
                   timestamp |-> cache_data.timestamp,
                   count |-> cache_data.count])

json_loads(text) ==
    [results |->
        [i \in 1..Len(text.results) |->
            LET r == text.results[i]
            IN  [r EXCEPT !.raw_data =
                    [k \in DOMAIN r.raw_data |-> PyValue(k, r.raw_data[k])]]],
     timestamp |-> text.timestamp,
     count |-> text.count]

\* the order in which the keys of a raw_data dict are iterated
RawKeyOrder == <<"name", "email", "phone", "address", "aliases", "timestamp",
                 "case_number", "phones", "employment">>

RECURSIVE Join(_)
Join(parts) ==
    IF parts = <<>> THEN <<>>
    ELSE IF Len(parts) = 1 THEN parts[1]
    ELSE parts[1] \o <<" ">> \o Join(Tail(parts))

RECURSIVE TextParts(_, _)
TextParts(raw_data, n) ==
    IF n = 0 THEN <<>>
    ELSE LET key == RawKeyOrder[n]
             before == TextParts(raw_data, n - 1)
         IN  IF key \notin DOMAIN raw_data \/ key = "timestamp"
                \/ IsInstance(key, "dict") THEN before
             ELSE IF key = "aliases" THEN before \o raw_data[key].tuple
             ELSE IF IsInstance(key, "list") THEN before \o raw_data[key].list
             ELSE before \o <<raw_data[key]>>

_extract_searchable_text(result) == Join(TextParts(result.raw_data, Len(RawKeyOrder)))

\* The documents of the index by id; a write to an id replaces its document.
\* With a failing Elasticsearch the first write raises and is caught here.
_index_results_elasticsearch(query_id, results, index, fault) ==
    IF fault = "index_fails" /\ results # <<>> THEN index
    ELSE LET ids == {<<query_id, i>> : i \in 0..(Len(results) - 1)}
         IN  [d \in DOMAIN index \cup ids |->
                 IF d \in ids
                 THEN LET result == results[d[2] + 1]
                      IN  [query_id |-> query_id,
                           source |-> result.source,
                           data_type |-> result.data_type,
                           confidence |-> result.confidence,
                           raw_data |-> result.raw_data,
                           timestamp |-> result.timestamp,
                           metadata |-> result.metadata,
                           search_text |-> _extract_searchable_text(result)]
                 ELSE index[d]]

\* a slip: the failure of a write is raised to the caller
CacheResultsPropagates(query_id, results, store, index, now, fault) ==
    [raised |-> fault # "ok", redis |-> store, es |-> index]

\* _cache_results: what it leaves in Redis and in the index; every exception
\* of the serialisation, of setex and of the indexing is caught and logged
_cache_results(query_id, results, store, index, now, fault) ==
    LET cache_data == [results |-> [i \in 1..Len(results) |->
                                        _serialize_result(results[i])],
                       timestamp |-> isoformat(now),
                       count |-> Len(results)]
        text == json_dumps(cache_data)
    IN  IF text.raised \/ fault = "redis_fails"
        THEN [raised |-> FALSE, redis |-> store, es |-> index]
        ELSE [raised |-> FALSE,
              redis |-> Some([key |-> <<"search_results:", query_id>>,
                              value |-> text.value,
                              set_at |-> now,
                              ttl |-> CacheTTL]),
              es |-> _index_results_elasticsearch(query_id, results, index, fault)]

\* a slip: the entry is read whatever its age
RedisGetNoExpiry(store, key, now) ==
    IF store.is_none \/ store.v.key # key THEN NoneV ELSE Some(store.v.value)

\* redis.get: the value of a key that is set and has not expired
RedisGet(store, key, now) ==
    IF store.is_none \/ store.v.key # key \/ now >= store.v.set_at + store.v.ttl
    THEN NoneV
    ELSE Some(store.v.value)

get_cached_results(query_id, store, now, fault) ==
    IF fault = "redis_fails" THEN NoneV
    ELSE LET hit == RedisGet(store, <<"search_results:", query_id>>, now)
         IN  IF hit.is_none THEN NoneV
             ELSE LET cache_data == json_loads(hit.v)
                  IN  Some([i \in 1..Len(cache_data.results) |->
                               LET result_data == cache_data.results[i]
                               IN  [source |-> result_data.source,
                                    data_type |-> result_data.data_type,
                                    confidence |-> result_data.confidence,
                                    raw_data |-> result_data.raw_data,
                                    timestamp |-> fromisoformat(result_data.timestamp),
                                    metadata |-> result_data.metadata]])

----------------------------------------------------------------------------
(* The pipeline: AdvancedSearchEngine.search *)

\* {r.source: r.confidence for r in results}: the last result of a source wins
ConfidenceScores(results) ==
    [src \in {results[i].source : i \in 1..Len(results)} |->
        LET last == CHOOSE i \in 1..Len(results) :
                        /\ results[i].source = src
                        /\ \A j \in (i + 1)..Len(results) : results[j].source # src
        IN  results[last].confidence]

SearchResponse(q, final_results) ==
    [query_id |-> q.query_id,
     total_results |-> Len(final_results),
     results |-> final_results,
     sources_queried |-> {final_results[i].source : i \in 1..Len(final_results)},
     confidence_scores |-> ConfidenceScores(final_results),
     metadata |-> [query_enhancement |-> q.parameters,
                   ai_scoring_applied |-> TRUE,
                   results_cached |-> TRUE]]

NoResponse == [query_id |-> None]

\* DataSourceManager.__aenter__: the HTTP session is created
Enter ==
    /\ pc = "idle"
    /\ ~session
    /\ session' = TRUE
    /\ UNCHANGED <<pc, feed, nlp, query, tasks, idx, collected, fanout_error,
                   raw_results, groups, processed, scored, response>>
    /\ UNCHANGED store_vars

\* search() from its entry to the first await of a provider's coroutine:
\* _enhance_query, then, in _execute_search, the session check and the first
\* loop of search_all_sources
Search ==
    /\ pc = "idle"
    /\ LET enhanced == _enhance_query(query)
       IN  IF enhanced.raised
           THEN \* the exception leaves search()
                /\ pc' = "raised"
                /\ UNCHANGED <<query, tasks, idx, collected, fanout_error, raw_results>>
           ELSE LET enhanced_query == [query EXCEPT !.parameters = enhanced.value]
                    capable == Capable(enhanced.value)
                IN  /\ query' = enhanced_query
                    /\ idx' = 1
                    /\ collected' = <<>>
                    /\ IF ~session
                       THEN \* RuntimeError, caught by _execute_search
                            /\ fanout_error' = "RuntimeError"
                            /\ tasks' = <<>>
                            /\ raw_results' = <<>>
                            /\ pc' = "process"
                       ELSE IF CallRaises(enhanced.value)
                       THEN \* the call raises outside the try, caught by _execute_search
                            /\ fanout_error' = "call"
                            /\ tasks' = <<>>
                            /\ raw_results' = <<>>
                            /\ pc' = "process"
                       ELSE IF capable = <<>>
                       THEN /\ fanout_error' = "no"
                            /\ tasks' = <<>>
                            /\ raw_results' = ExecuteReturn(<<>>, enhanced_query)
                            /\ pc' = "process"
                       ELSE /\ fanout_error' = "no"
                            /\ tasks' = capable
                            /\ raw_results' = <<>>
                            /\ pc' = "await"
    /\ UNCHANGED <<session, feed, nlp, groups, processed, scored, response>>
    /\ UNCHANGED store_vars

\* one iteration of the second loop of search_all_sources, up to its sleep;
\* after the last task the function returns and _execute_search filters
Await ==
    /\ pc = "await"
    /\ idx <= Len(tasks)
    /\ feed[tasks[idx]].kind # "hang"
    /\ LET outcome == feed[tasks[idx]]
           results == IF outcome.kind = "raise_await" THEN collected
                      ELSE AfterAwait(collected, outcome)
       IN  /\ collected' = results
           /\ IF idx < Len(tasks)
              THEN /\ raw_results' = raw_results
                   /\ IF outcome.kind = "raise_await"
                      THEN \* except ... continue: the sleep is skipped
                           /\ pc' = "await"
                           /\ idx' = idx + 1
                      ELSE /\ pc' = "sleep"
                           /\ idx' = idx
              ELSE /\ raw_results' = ExecuteReturn(results, query)
                   /\ pc' = "process"
                   /\ idx' = idx + 1
    /\ UNCHANGED <<session, feed, nlp, query, tasks, fanout_error, groups,
                   processed, scored, response>>
    /\ UNCHANGED store_vars

\* await asyncio.sleep(delay) returns
Sleep ==
    /\ pc = "sleep"
    /\ pc' = "await"
    /\ idx' = idx + 1
    /\ UNCHANGED <<session, feed, nlp, query, tasks, collected, fanout_error,
                   raw_results, groups, processed, scored, response>>
    /\ UNCHANGED store_vars

\* search() from the return of _execute_search to its own return
Process ==
    /\ pc = "process"
    /\ LET entity_groups == _group_results_by_entity(raw_results)
           processed_results == _process_results(raw_results)
           scored_results == _apply_ai_scoring(processed_results, query)
           final_results == _filter_and_rank_results(scored_results, query)
           persisted == _cache_results(query.query_id, final_results, redis, es,
                                       clock, persistence)
       IN  /\ groups' = entity_groups
           /\ processed' = processed_results
           /\ scored' = scored_results
           /\ IF persisted.raised
              THEN \* the exception leaves search()
                   /\ pc' = "raised"
                   /\ UNCHANGED <<response, redis, es>>
              ELSE /\ redis' = persisted.redis
                   /\ es' = persisted.es
                   /\ response' = SearchResponse(query, final_results)
                   /\ pc' = "done"
    /\ UNCHANGED <<session, feed, nlp, query, tasks, idx, collected, fanout_error,
                   raw_results>>
    /\ UNCHANGED <<persistence, clock, cached, leak_db, leak_batch, leak_found>>
    /\ UNCHANGED <<users, login, time_now, requests, answers>>

Next == Enter \/ Search \/ Await \/ Sleep \/ Process

\* time passes while search() is between fan-out and persistence, or after it
Tick ==
    /\ pc \in {"process", "done"}
    /\ \E d \in ClockSteps :
        /\ clock + d <= MaxClock
        /\ clock' = clock + d
    /\ UNCHANGED <<pc, session, feed, nlp, query, tasks, idx, collected,
                   fanout_error, raw_results, groups, processed, scored, response>>
    /\ UNCHANGED <<persistence, redis, es, cached, leak_db, leak_batch, leak_found>>
    /\ UNCHANGED <<users, login, time_now, requests, answers>>

\* a caller asks get_cached_results for a query id once search() has returned
GetCached ==
    /\ pc = "done"
    /\ \E query_id \in {"q1", "q2"} :
        cached' = [called |-> TRUE, query_id |-> query_id, at |-> clock,
                   value |-> get_cached_results(query_id, redis, clock, persistence)]
    /\ pc' = "got"
    /\ UNCHANGED <<session, feed, nlp, query, tasks, idx, collected,
                   fanout_error, raw_results, groups, processed, scored, response>>
    /\ UNCHANGED <<persistence, redis, es, clock, leak_db, leak_batch, leak_found>>
    /\ UNCHANGED <<users, login, time_now, requests, answers>>

NextCache == Next \/ Tick \/ GetCached

\* advanced_search(query) with the query_id of the search that has returned:
\* up to its return from the cache, or up to its call of search().  cached
\* keeps what get_cached_results returned and whether Redis held an entry.
AdvancedSearch ==
    /\ pc = "done"
    /\ ~cached.called
    /\ LET got == get_cached_results(query.query_id, redis, clock, persistence)
           held == RedisGet(redis, <<"search_results:", query.query_id>>, clock)
       IN  /\ cached' = [called |-> TRUE, query_id |-> query.query_id, at |-> clock,
                         value |-> got, entry |-> ~held.is_none]
           /\ IF ~got.is_none /\ got.v # <<>>
              THEN /\ response' = [query_id |-> query.query_id,
                                   total_results |-> Len(got.v),
                                   results |-> got.v,
                                   search_time |-> QInt(0),
                                   sources_queried |->
                                       {got.v[i].source : i \in 1..Len(got.v)},
                                   confidence_scores |-> ConfidenceScores(got.v),
                                   metadata |-> [cached |-> TRUE]]
                   /\ pc' = "served"
              ELSE \* return await self.search(query)
                   /\ response' = NoResponse
                   /\ pc' = "idle"
    /\ UNCHANGED <<session, feed, nlp, query, tasks, idx, collected,
                   fanout_error, raw_results, groups, processed, scored>>
    /\ UNCHANGED <<persistence, redis, es, clock, leak_db, leak_batch, leak_found>>
    /\ UNCHANGED <<users, login, time_now, requests, answers>>

NextAdvanced == Next \/ Tick \/ AdvancedSearch

----------------------------------------------------------------------------
(* Accounts and rate limiting: src/src/security/auth.py *)

\* the lockout of authenticate_user: five failed attempts lock for 30 minutes
LockAttempts == 5
LockMinutes == 30

\* MOCK_USERS as the module creates it (the fields authenticate_user reads
\* and writes) and MOCK_PASSWORD_HASHES, where bcrypt.hashpw(password) is
\* [hashed |-> password]
MOCK_USERS ==
    [username \in {"admin", "viewer"} |->
        [is_active |-> TRUE, last_login |-> NoneV,
         failed_login_attempts |-> 0, locked_until |-> NoneV]]

MOCK_PASSWORD_HASHES ==
    [username \in {"admin", "viewer"} |->
        [hashed |-> IF username = "admin" THEN "admin123" ELSE "viewer123"]]

\* AuthService.verify_password: bcrypt.checkpw accepts the hashed password only
verify_password(plain_password, hashed_password) ==
    hashed_password = [hashed |-> plain_password]

\* authenticate_user with the lock tested only after a failed password
authenticate_userLockAfterPassword(accounts, username, password, at) ==
    IF username \notin DOMAIN accounts
    THEN [users |-> accounts, value |-> NoneV]
    ELSE LET user == accounts[username] IN
         IF verify_password(password, MOCK_PASSWORD_HASHES[username])
         THEN [users |-> [accounts EXCEPT ![username] =
                             [user EXCEPT !.failed_login_attempts = 0,
                                          !.last_login = Some(at)]],
               value |-> Some(username)]
         ELSE IF ~user.locked_until.is_none /\ at < user.locked_until.v
         THEN [users |-> accounts, value |-> NoneV]
         ELSE LET failed == user.failed_login_attempts + 1 IN
              [users |-> [accounts EXCEPT ![username] =
                             [user EXCEPT !.failed_login_attempts = failed,
                                          !.locked_until =
                                              IF failed >= LockAttempts
                                              THEN Some(at + 60 * LockMinutes)
                                              ELSE @]],
               value |-> NoneV]

\* AuthService.authenticate_user at time at: the accounts it leaves, and the
\* username of the User it returns or None
authenticate_user(accounts, username, password, at) ==
    IF username \notin DOMAIN accounts
    THEN [users |-> accounts, value |-> NoneV]
    ELSE LET user == accounts[username] IN
         IF ~user.locked_until.is_none /\ at < user.locked_until.v
         THEN [users |-> accounts, value |-> NoneV]
         ELSE IF ~user.is_active
         THEN [users |-> accounts, value |-> NoneV]
         ELSE IF username \in DOMAIN MOCK_PASSWORD_HASHES
         THEN IF verify_password(password, MOCK_PASSWORD_HASHES[username])
              THEN [users |-> [accounts EXCEPT ![username] =
                                  [user EXCEPT !.failed_login_attempts = 0,
                                               !.last_login = Some(at)]],
                    value |-> Some(username)]
              ELSE LET failed == user.failed_login_attempts + 1 IN
                   [users |-> [accounts EXCEPT ![username] =
                                  [user EXCEPT !.failed_login_attempts = failed,
                                               !.locked_until =
                                                   IF failed >= LockAttempts
                                                   THEN Some(at + 60 * LockMinutes)
                                                   ELSE @]],
                    value |-> NoneV]
         ELSE [users |-> accounts, value |-> NoneV]

\* the RateLimiter built for the model: RateLimiter(max_requests, window_seconds)
max_requests == 2
window_seconds == 3

\* is_allowed with the limit tested by <= instead of <
is_allowedInclusive(recorded, user_id, at) ==
    LET known == [u \in DOMAIN recorded \cup {user_id} |->
                     IF u \in DOMAIN recorded THEN recorded[u] ELSE <<>>]
        InWindow(req_time) == at - req_time < window_seconds
        kept == SelectSeq(known[user_id], InWindow)
    IN  IF Len(kept) <= max_requests
        THEN [requests |-> [known EXCEPT ![user_id] = Append(kept, at)],
              value |-> TRUE]
        ELSE [requests |-> [known EXCEPT ![user_id] = kept], value |-> FALSE]

\* RateLimiter.is_allowed at time at: the dictionary it leaves, and its answer
is_allowed(recorded, user_id, at) ==
    LET known == [u \in DOMAIN recorded \cup {user_id} |->
                     IF u \in DOMAIN recorded THEN recorded[u] ELSE <<>>]
        InWindow(req_time) == at - req_time < window_seconds
        kept == SelectSeq(known[user_id], InWindow)
    IN  IF Len(kept) < max_requests
        THEN [requests |-> [known EXCEPT ![user_id] = Append(kept, at)],
              value |-> TRUE]
        ELSE [requests |-> [known EXCEPT ![user_id] = kept], value |-> FALSE]

----------------------------------------------------------------------------
(* The inputs drawn: queries, provider behaviours, texts *)

\* the longest list one provider returns in Spec
MaxPerProvider == 2
\* the longest list the provider returns in SpecCluster
MaxClusterInput == 4

\* all sequences over S of length 0..n
RECURSIVE SeqsUpTo(_, _)
SeqsUpTo(S, n) ==
    IF n = 0 THEN {<<>>}
    ELSE LET shorter == SeqsUpTo(S, n - 1)
         IN  shorter \cup {Append(t, x) : t \in {u \in shorter : Len(u) = n - 1}, x \in S}

\* a SearchResult as a provider builds it (its identity is given on return)
Result(source, confidence, raw_data) ==
    [source |-> source, data_type |-> "personal_info", confidence |-> confidence,
     raw_data |-> raw_data, timestamp |-> 1, metadata |-> <<>>]

Outcome(kind, results) == [kind |-> kind, results |-> results]

Failures == {Outcome("raise_call", <<>>), Outcome("raise_await", <<>>),
             Outcome("none", <<>>)}

Lists(T, n) == {Outcome("list", l) : l \in SeqsUpTo(T, n)}
Singles(T) == {Outcome("single", <<t>>) : t \in T}

\* the feeds in which each provider's behaviour is drawn from its own set
Feeds(social, phone, email) ==
    {[p \in Providers |->
         CASE p = "social_media" -> a
           [] p = "phone_directories" -> b
           [] p = "email_databases" -> c] : a \in social, b \in phone, c \in email}

\* the texts
T_a_at_x == <<"a", "@", "x">>
T_b_at_x == <<"b", "@", "x">>
T_ab_at_x == <<"a", "b", "@", "x">>
T_ab == <<"a", "b">>
T_AB_sp == <<"A", "B", " ">>
T_a_b == <<"a", " ", "b">>
T_a_c == <<"a", " ", "c">>
T_12 == <<"1", "2">>
T_x == <<"x">>

\* the pairs of distinct multi-word texts that reach the spaCy comparison
NlpPairs == {{T_a_b, T_a_c}}

Query(parameters, threshold, max_results) ==
    [query_id |-> "q1", parameters |-> parameters, filters |-> <<>>,
     date_range |-> NoneV,
     geographic_scope |-> <<>>, confidence_threshold |-> threshold,
     max_results |-> max_results]

Start ==
    /\ pc = "idle"
    /\ session = FALSE
    /\ tasks = <<>>
    /\ idx = 1
    /\ collected = <<>>
    /\ fanout_error = "no"
    /\ raw_results = <<>>
    /\ groups = <<>>
    /\ processed = <<>>
    /\ scored = <<>>
    /\ response = NoResponse
    /\ redis = NoneV
    /\ es = <<>>
    /\ clock = 0
    /\ cached = [called |-> FALSE]
    /\ leak_db = <<>>
    /\ leak_batch = <<>>
    /\ leak_found = [called |-> FALSE]
    /\ users = MOCK_USERS
    /\ login = [n |-> 0]
    /\ time_now = 0
    /\ requests = <<>>
    /\ answers = <<>>

\* Spec: the whole pipeline over provider failures, thresholds and caps
MainTemplates(source) ==
    {Result(source, c, raw) :
        c \in {Q(1, 2), Q(9, 10)},
        raw \in {[email |-> T_a_at_x], [email |-> T_b_at_x, phone |-> T_12]}}

MainQueries ==
    {Query(p, t, m) :
        p \in {[email |-> T_a_at_x], [email |-> T_a_at_x, phone |-> T_12],
               [name |-> T_ab]},
        t \in {Q(0, 1), Q(7, 10)},
        m \in {0, 1, 2, 100}}

Init ==
    /\ Start
    /\ persistence = "ok"
    /\ nlp = [pair \in NlpPairs |-> Q(1, 2)]
    /\ query \in MainQueries
    /\ feed \in Feeds(Failures \cup Singles(MainTemplates("social_media"))
                        \cup Lists(MainTemplates("social_media"), MaxPerProvider),
                    {Outcome("raise_call", <<>>), Outcome("list", <<>>)},
                    Failures \cup Lists(MainTemplates("email_databases"), 1))

Spec == Init /\ [][Next]_vars

\* SpecCluster: one provider returns a list whose raw fields exercise every
\* branch of the similarity: equal after lower/strip, edit distance, spaCy,
\* empty value, no comparable field
ClusterTemplates ==
    {Result("social_media", Q(1, 2), raw) :
        raw \in {[name |-> T_ab, email |-> T_b_at_x],
                 [name |-> T_ab, email |-> T_a_at_x],
                 [email |-> T_a_at_x],
                 [name |-> T_ab],
                 [name |-> T_AB_sp],
                 [name |-> <<>>],
                 [name |-> T_a_b],
                 [name |-> T_a_c],
                 [case_number |-> T_12]}}

\* what spaCy may report for two distinct multi-word texts
NlpValues == {Q(1, 2), Q(9, 10)}

InitCluster ==
    /\ Start
    /\ persistence = "ok"
    /\ nlp \in [NlpPairs -> NlpValues]
    /\ query = Query([email |-> T_a_at_x], Q(0, 1), 100)
    /\ feed \in Feeds(Lists(ClusterTemplates, MaxClusterInput),
                    {Outcome("list", <<>>)},
                    {Outcome("none", <<>>)})

SpecCluster == InitCluster /\ [][Next]_vars

\* SpecScore: one provider returns one result, or a result followed by the
\* same result with one more raw field or a higher provider confidence
ScoreFields == <<"name", "email", "phone", "address", "timestamp">>

\* the age.days of a raw timestamp: a year ahead, recent, two years old
TimestampAges == {0 - 365, 73, 730}

ScoreValues(f) ==
    CASE f = "name" -> {T_ab}
      [] f = "email" -> {T_a_at_x, T_ab_at_x}
      [] f = "phone" -> {T_12, T_x}
      [] f = "address" -> {T_x, T_12}
      [] f = "timestamp" -> TimestampAges

RECURSIVE RawDatas(_)
RawDatas(n) ==
    IF n = 0 THEN {<<>>}
    ELSE RawDatas(n - 1) \cup
         {Put(d, ScoreFields[n], v) : d \in RawDatas(n - 1), v \in ScoreValues(ScoreFields[n])}

ScoreTemplates ==
    {Result("social_media", c, raw) : c \in {Q(1, 2), Q(9, 10)}, raw \in RawDatas(5)}

Extensions(r) ==
    UNION {IF ScoreFields[n] \in DOMAIN r.raw_data THEN {}
           ELSE {[r EXCEPT !.raw_data = Put(@, ScoreFields[n], v)] :
                    v \in ScoreValues(ScoreFields[n])} : n \in 1..5}
    \cup {[r EXCEPT !.confidence = c] : c \in {c \in {Q(9, 10)} : QLt(r.confidence, c)}}

ScoreQueries ==
    {Query(params, Q(0, 1), 100) :
        params \in {[email |-> T_a_at_x],
                    [email |-> T_a_at_x, phone |-> T_12],
                    [email |-> T_ab_at_x, address |-> T_x]}}

InitScore ==
    /\ Start
    /\ persistence = "ok"
    /\ nlp = [pair \in NlpPairs |-> Q(1, 2)]
    /\ query \in ScoreQueries
    /\ feed \in Feeds({Outcome("list", <<r>>) : r \in ScoreTemplates}
                      \cup UNION {{Outcome("list", <<r, e>>) : e \in Extensions(r)} :
                                    r \in ScoreTemplates},
                    {Outcome("list", <<>>)},
                    {Outcome("none", <<>>)})

SpecScore == InitScore /\ [][Next]_vars

\* SpecCache: search() followed by get_cached_results, over results that
\* JSON keeps, changes (a tuple) or cannot encode (a datetime), with Redis or
\* Elasticsearch failing
T_aliases == [tuple |-> <<T_ab, T_x>>]

CacheTemplates ==
    {Result("social_media", c, raw) :
        c \in {Q(1, 2), Q(9, 10)},
        raw \in {[email |-> T_a_at_x],
                 [email |-> T_a_at_x, aliases |-> T_aliases],
                 [email |-> T_a_at_x, timestamp |-> 73]}}

InitCache ==
    /\ Start
    /\ persistence \in {"ok", "redis_fails", "index_fails"}
    /\ nlp = [pair \in NlpPairs |-> Q(1, 2)]
    /\ query \in {Query([email |-> T_a_at_x], t, 100) : t \in {Q(0, 1), Q(7, 10)}}
    /\ feed \in Feeds(Lists(CacheTemplates, MaxPerProvider),
                    {Outcome("list", <<>>)},
                    {Outcome("none", <<>>)})

SpecCache == InitCache /\ [][NextCache]_vars

\* SpecAdvanced: search() followed by advanced_search with the same query_id
SpecAdvanced == InitCache /\ [][NextAdvanced]_vars

\* SpecFilter: queries with a filter set, over results of two sources, two
\* data types and two timestamps
\* SearchFilters.dict() of a request that sets no filter
UnsetFilters ==
    [sources |-> NoneV, data_types |-> NoneV, exclude_sources |-> NoneV,
     exclude_data_types |-> NoneV, min_confidence |-> NoneV,
     max_confidence |-> NoneV, has_criminal_record |-> NoneV,
     has_property |-> NoneV, has_business |-> NoneV, is_active |-> NoneV]

FilterSets ==
    {<<>>,
     [date_range |-> Some([start |-> 3, end |-> 0])],
     [date_range |-> Some([start |-> 0, end |-> 3])],
     [date_range |-> NoneV],
     [sources |-> Some({"email_databases"})],
     [sources |-> NoneV],
     [data_types |-> Some({"personal_info"})],
     [data_types |-> NoneV],
     [exclude_sources |-> Some({"social_media"})],
     [sources |-> Some({"social_media"}), data_types |-> Some({"social_profile"}),
      date_range |-> Some([start |-> 3, end |-> 5])],
     UnsetFilters}

InitFilter ==
    /\ Start
    /\ persistence = "ok"
    /\ nlp = [pair \in NlpPairs |-> Q(1, 2)]
    /\ query \in {[Query([email |-> T_a_at_x], Q(0, 1), 100)
                    EXCEPT !.filters = f, !.date_range = d] :
                    f \in FilterSets, d \in {NoneV, Some([start |-> 3, end |-> 0])}}
    /\ feed \in Feeds(
        Lists({[Result("social_media", Q(9, 10), [email |-> T_a_at_x])
                  EXCEPT !.timestamp = t, !.data_type = k] :
                  t \in {1, 5}, k \in {"personal_info", "social_profile"}},
              MaxPerProvider),
        {Outcome("list", <<>>)},
        Lists({Result("email_databases", Q(1, 2), [email |-> T_a_at_x])}, 1))

SpecFilter == InitFilter /\ [][Next]_vars

\* SpecQuery: well-formed and malformed queries: an email with two '@', a
\* name, addresses beside caller-supplied components, an empty field mapping,
\* thresholds outside [0, 1] and result counts below 1
T_a_at_b_at_x == <<"a", "@", "b", "@", "x">>
T_a_comma_b == <<"a", ",", "b">>

QueryParameters ==
    {[email |-> T_a_at_x],
     [email |-> T_a_at_b_at_x],
     [name |-> T_a_b],
     <<>>,
     [email |-> T_a_at_x, address |-> T_a_comma_b, city |-> T_x],
     [address |-> T_ab, zip_code |-> T_12, latitude |-> T_12],
     [phone |-> T_12, clean_phone |-> T_x, email_domain |-> T_ab]}

InitQuery ==
    /\ Start
    /\ persistence = "ok"
    /\ nlp = [pair \in NlpPairs |-> Q(1, 2)]
    /\ query \in {Query(p, t, m) :
                    p \in QueryParameters,
                    t \in {Q(7, 10), Q(3, 2), Q(0 - 1, 2)},
                    m \in {100, 0, 0 - 1}}
    /\ feed \in Feeds(Lists({Result("social_media", Q(9, 10), [email |-> T_a_at_x])}, 1),
                    {Outcome("list", <<>>)},
                    Lists({Result("email_databases", Q(1, 2), [email |-> T_a_at_x])}, 1))

SpecQuery == InitQuery /\ [][Next]_vars

\* the steps of search() up to the return of _execute_search
FanOut == Search \/ Await \/ Sleep

\* SpecHang: providers that answer and providers whose search never returns.
\* The event loop resumes a coroutine whose awaited call has completed: weak
\* fairness of the fan-out steps.
InitHang ==
    /\ Start
    /\ persistence = "ok"
    /\ nlp = [pair \in NlpPairs |-> Q(1, 2)]
    /\ query \in {Query(p, Q(0, 1), 100) :
                    p \in {[email |-> T_a_at_x], [email |-> T_a_at_x, phone |-> T_12]}}
    /\ feed \in Feeds({Outcome("hang", <<>>), Outcome("raise_await", <<>>)}
                        \cup Lists({Result("social_media", Q(9, 10),
                                           [email |-> T_a_at_x])}, 1),
                    {Outcome("hang", <<>>), Outcome("list", <<>>)},
                    {Outcome("hang", <<>>)}
                        \cup Lists({Result("email_databases", Q(1, 2),
                                           [email |-> T_a_at_x])}, 1))

SpecHang == InitHang /\ [][Next]_vars /\ WF_vars(FanOut)

\* SpecGreedy: provider lists in which a result is equally similar to two
\* representatives, in which a similarity is exactly 0.8, and in which a
\* compared field is empty
InitGreedy ==
    /\ Start
    /\ persistence = "ok"
    /\ nlp \in [NlpPairs -> {Q(8, 10), Q(9, 10)}]
    /\ query = Query([email |-> T_a_at_x], Q(0, 1), 100)
    /\ feed \in Feeds(
        Lists({Result("social_media", Q(1, 2), raw) :
                  raw \in {[email |-> T_a_at_x],
                           [name |-> T_ab],
                           [name |-> T_ab, email |-> T_a_at_x],
                           [name |-> T_a_b],
                           [name |-> T_a_c],
                           [name |-> <<>>, email |-> T_a_at_x]}},
              MaxClusterInput),
        {Outcome("list", <<>>)},
        {Outcome("none", <<>>)})

SpecGreedy == InitGreedy /\ [][Next]_vars

\* SpecMerge: provider lists whose results share an email and carry
\* list-valued and dict-valued raw fields
InitMerge ==
    /\ Start
    /\ persistence = "ok"
    /\ nlp = [pair \in NlpPairs |-> Q(1, 2)]
    /\ query = Query([email |-> T_a_at_x], Q(0, 1), 100)
    /\ feed \in Feeds(
        Lists({Result("social_media", Q(1, 2), raw) :
                  raw \in {[email |-> T_a_at_x],
                           [email |-> T_a_at_x, phones |-> [list |-> <<T_12>>]],
                           [email |-> T_a_at_x, phones |-> [list |-> <<T_x>>]],
                           [email |-> T_a_at_x, employment |-> [dict |-> [x |-> T_12]]],
                           [email |-> T_a_at_x,
                            employment |-> [dict |-> [x |-> T_ab, ab |-> T_x]]],
                           [email |-> T_b_at_x, phones |-> [list |-> <<T_12>>]]}},
              MaxClusterInput),
        {Outcome("list", <<>>)},
        {Outcome("none", <<>>)})

SpecMerge == InitMerge /\ [][Next]_vars

----------------------------------------------------------------------------
(* The leak store: src/src/core/leak_database_scraper.py,                  *)
(* save_records_to_database and search_database over table leak_records    *)

MaxLeakBatch == 2
MaxLeakRows == 2

T_None == <<"N", "o", "n", "e">>

\* LeakRecord objects: email, password, domain and source vary; github records
\* carry the higher confidence and x-domain records a timestamp
LeakRecords ==
    {[email |-> e, password |-> p, username |-> NoneV, domain |-> Some(d),
      breach_name |-> Some(T_x), breach_date |-> NoneV, source |-> s,
      confidence |-> IF s = "github" THEN Q(9, 10) ELSE Q(1, 2),
      timestamp |-> IF d = T_x THEN Some(1) ELSE NoneV] :
        e \in {T_a_at_x, T_ab_at_x},
        p \in {NoneV, Some(T_x), Some(T_None)},
        d \in {T_x, T_ab},
        s \in {"github", "pastebin"}}
    \cup
    \* records whose timestamp is a text and no datetime (the dataclass checks
    \* no type): timestamp.isoformat() raises AttributeError for them
    {[email |-> e, password |-> Some(T_x), username |-> NoneV, domain |-> Some(T_x),
      breach_name |-> Some(T_x), breach_date |-> NoneV, source |-> "github",
      confidence |-> Q(9, 10), timestamp |-> [is_none |-> FALSE, str |-> T_12]] :
        e \in {T_a_at_x, T_ab_at_x}}

LeakQueries == {T_a_at_x, T_ab_at_x, T_b_at_x, T_x}

\* f"{record.email}:{record.password}:{record.breach_name}": an optional field
\* that is None is formatted as the text None.  hashlib.md5(...).hexdigest()
\* is taken to be injective: the hash is the formatted text.
RecordHash(record) ==
    LET Format(field) == IF field.is_none THEN T_None ELSE field.v
    IN  record.email \o <<":">> \o Format(record.password) \o <<":">>
            \o Format(record.breach_name)

\* save_records_to_database with the try around the whole loop: the first
\* record that raises ends the call
RECURSIVE save_records_to_databaseOneTry(_, _)
save_records_to_databaseOneTry(db, records) ==
    IF records = <<>> THEN db
    ELSE LET record == Head(records)
             record_hash == RecordHash(record)
             raises == ~record.timestamp.is_none /\ "v" \notin DOMAIN record.timestamp
             row == [email |-> record.email,
                     password |-> record.password,
                     username |-> record.username,
                     domain |-> record.domain,
                     breach_name |-> record.breach_name,
                     breach_date |-> record.breach_date,
                     source |-> record.source,
                     confidence |-> record.confidence,
                     timestamp |-> IF record.timestamp.is_none THEN NoneV
                                   ELSE Some(isoformat(record.timestamp.v)),
                     hash |-> record_hash]
             ignored == \E k \in 1..Len(db) : db[k].hash = record_hash
         IN  IF raises THEN db
             ELSE save_records_to_databaseOneTry(
                      IF ignored THEN db ELSE Append(db, row), Tail(records))

\* The rows of leak_records, in rowid order, after the loop and the commit.
\* INSERT OR IGNORE skips a record whose hash is already in the table
\* (hash TEXT UNIQUE).  A record whose timestamp has no isoformat() raises
\* inside the try of its iteration: it is logged and the loop goes on.
RECURSIVE save_records_to_database(_, _)
save_records_to_database(db, records) ==
    IF records = <<>> THEN db
    ELSE LET record == Head(records)
             record_hash == RecordHash(record)
             raises == ~record.timestamp.is_none /\ "v" \notin DOMAIN record.timestamp
             row == [email |-> record.email,
                     password |-> record.password,
                     username |-> record.username,
                     domain |-> record.domain,
                     breach_name |-> record.breach_name,
                     breach_date |-> record.breach_date,
                     source |-> record.source,
                     confidence |-> record.confidence,
                     timestamp |-> IF record.timestamp.is_none THEN NoneV
                                   ELSE Some(isoformat(record.timestamp.v)),
                     hash |-> record_hash]
             ignored == \E k \in 1..Len(db) : db[k].hash = record_hash
         IN  save_records_to_database(
                 IF raises \/ ignored THEN db ELSE Append(db, row), Tail(records))

\* column LIKE '%pattern%' for a pattern without % and _: a substring test that
\* ignores the case of ASCII letters; NULL LIKE ... is not true
Like(column, pattern) ==
    ~column.is_none /\ IsSubstring(Lower(pattern), Lower(column.v))

\* the orders ORDER BY confidence DESC allows: rows of equal confidence come
\* in an order SQLite does not specify
ConfidenceOrders(rows) ==
    {[i \in 1..Len(rows) |-> rows[f[i]]] :
        f \in {g \in [1..Len(rows) -> 1..Len(rows)] :
                 /\ \A a, b \in 1..Len(rows) : g[a] = g[b] => a = b
                 /\ \A a, b \in 1..Len(rows) :
                        a < b => QLe(rows[g[b]].confidence, rows[g[a]].confidence)}}

\* the lists of LeakRecord objects search_database can return
search_database(db, pattern, search_type) ==
    LET selected ==
            SelectSeq(db, LAMBDA row :
                CASE search_type = "email" -> Like(Some(row.email), pattern)
                  [] search_type = "domain" -> Like(row.domain, pattern)
                  [] OTHER -> \/ Like(Some(row.email), pattern)
                              \/ Like(row.username, pattern)
                              \/ Like(row.domain, pattern))
        record(row) ==
            [email |-> row.email,
             password |-> row.password,
             username |-> row.username,
             domain |-> row.domain,
             breach_name |-> row.breach_name,
             breach_date |-> row.breach_date,
             source |-> row.source,
             confidence |-> row.confidence,
             timestamp |-> IF row.timestamp.is_none THEN NoneV
                           ELSE Some(fromisoformat(row.timestamp.v))]
    IN  {[i \in 1..Len(rows) |-> record(rows[i])] : rows \in ConfidenceOrders(selected)}

\* scraper.save_records_to_database(records)
SaveRecords ==
    /\ ~leak_found.called
    /\ Len(leak_db) < MaxLeakRows
    /\ \E records \in SeqsUpTo(LeakRecords, MaxLeakBatch) :
        /\ leak_batch' = records
        /\ leak_db' = save_records_to_database(leak_db, records)
    /\ UNCHANGED <<pc, session, feed, nlp, query, tasks, idx, collected,
                   fanout_error, raw_results, groups, processed, scored, response>>
    /\ UNCHANGED <<persistence, redis, es, clock, cached, leak_found>>
    /\ UNCHANGED <<users, login, time_now, requests, answers>>

\* await scraper.search_database(query, search_type)
SearchDatabase ==
    /\ ~leak_found.called
    /\ \E q \in LeakQueries, search_type \in {"email", "domain", "all"} :
        \E records \in search_database(leak_db, q, search_type) :
            leak_found' = [called |-> TRUE, query |-> q,
                           search_type |-> search_type, value |-> records]
    /\ UNCHANGED <<pc, session, feed, nlp, query, tasks, idx, collected,
                   fanout_error, raw_results, groups, processed, scored, response>>
    /\ UNCHANGED <<persistence, redis, es, clock, cached, leak_db, leak_batch>>
    /\ UNCHANGED <<users, login, time_now, requests, answers>>

NextLeak == SaveRecords \/ SearchDatabase

\* SpecLeak: a scraper on a fresh database file (initialize_database has
\* created the empty table)
InitLeak ==
    /\ Start
    /\ persistence = "ok"
    /\ nlp = [pair \in NlpPairs |-> Q(1, 2)]
    /\ query = Query([email |-> T_a_at_x], Q(0, 1), 100)
    /\ feed = [p \in Providers |-> Outcome("list", <<>>)]

SpecLeak == InitLeak /\ [][NextLeak]_vars

----------------------------------------------------------------------------
(* Logins and rate-limited calls over time: src/src/security/auth.py *)

MaxLogins == 6
MaxNow == 3600
MaxAnswers == 5
MaxPause == 4

\* one authenticate_user call, with a username that may be unknown and a
\* password that may be another account's
Authenticate ==
    /\ login.n < MaxLogins
    /\ \E username \in {"admin", "viewer", "nobody"}, password \in {"admin123", "viewer123"} :
        LET out == authenticate_user(users, username, password, time_now) IN
        /\ users' = out.users
        /\ login' = [n |-> login.n + 1, username |-> username,
                     password |-> password, at |-> time_now, value |-> out.value]
    /\ UNCHANGED <<pc, session, feed, nlp, query, tasks, idx, collected,
                   fanout_error, raw_results, groups, processed, scored, response>>
    /\ UNCHANGED <<persistence, redis, es, clock, cached, leak_db, leak_batch, leak_found>>
    /\ UNCHANGED <<time_now, requests, answers>>

\* time passes between two logins: as long as a lock lasts, or a minute less
Wait ==
    /\ \E d \in {60 * LockMinutes, 60 * (LockMinutes - 1)} :
        /\ time_now + d <= MaxNow
        /\ time_now' = time_now + d
    /\ UNCHANGED <<pc, session, feed, nlp, query, tasks, idx, collected,
                   fanout_error, raw_results, groups, processed, scored, response>>
    /\ UNCHANGED <<persistence, redis, es, clock, cached, leak_db, leak_batch, leak_found>>
    /\ UNCHANGED <<users, login, requests, answers>>

\* SpecAuth: logins over time, from the accounts as the module creates them
\* (the pipeline and the leak store stay as InitLeak leaves them)
SpecAuth == InitLeak /\ [][Authenticate \/ Wait]_vars

\* one is_allowed call
IsAllowed ==
    /\ Len(answers) < MaxAnswers
    /\ \E user_id \in {"u1", "u2"} :
        LET out == is_allowed(requests, user_id, time_now) IN
        /\ requests' = out.requests
        /\ answers' = Append(answers, [user_id |-> user_id, at |-> time_now,
                                       value |-> out.value])
    /\ UNCHANGED <<pc, session, feed, nlp, query, tasks, idx, collected,
                   fanout_error, raw_results, groups, processed, scored, response>>
    /\ UNCHANGED <<persistence, redis, es, clock, cached, leak_db, leak_batch, leak_found>>
    /\ UNCHANGED <<users, login, time_now>>

\* time passes between two is_allowed calls, a second or two at a time
Pause ==
    /\ \E d \in {1, 2} :
        /\ time_now + d <= MaxPause
        /\ time_now' = time_now + d
    /\ UNCHANGED <<pc, session, feed, nlp, query, tasks, idx, collected,
                   fanout_error, raw_results, groups, processed, scored, response>>
    /\ UNCHANGED <<persistence, redis, es, clock, cached, leak_db, leak_batch, leak_found>>
    /\ UNCHANGED <<users, login, requests, answers>>

\* SpecLimit: calls over time on a fresh RateLimiter
SpecLimit == InitLeak /\ [][IsAllowed \/ Pause]_vars

----------------------------------------------------------------------------
(* Claims checked under Spec *)

IsSynthetic(r) == r.id < 0

Final == response.results

\* the scored members of the cluster of a synthetic result
MembersOf(synthetic) ==
    SelectSeq(scored, LAMBDA r :
        /\ ~IsSynthetic(r)
        /\ r.metadata["correlated_entity_id"] = synthetic.metadata["entity_id"])

\* C1: every result search returns, raw or synthetic, has a stored confidence
\* of at least the query's confidence_threshold.
C1_ThresholdRespected ==
    pc = "done" =>
        \A i \in 1..Len(Final) : QLe(query.confidence_threshold, Final[i].confidence)

\* a search that dropped a scored result and returned a raw and a synthetic one
C1_Witness ==
    /\ pc = "done"
    /\ QLt(QInt(0), query.confidence_threshold)
    /\ \E i \in 1..Len(scored) : QLt(scored[i].confidence, query.confidence_threshold)
    /\ \E i, j \in 1..Len(Final) : IsSynthetic(Final[i]) /\ ~IsSynthetic(Final[j])

\* C2: search returns at most query.max_results results, and reports at most
\* that many, whatever max_results holds.
C2_CountWithinMax ==
    pc = "done" =>
        /\ Len(Final) <= query.max_results
        /\ response.total_results <= query.max_results

\* the capable providers of the query being processed
CapableSet == {Capable(query.parameters)[i] : i \in 1..Len(Capable(query.parameters))}

ProviderRaises(p) == feed[p].kind \in {"raise_call", "raise_await"}

\* the results provider p returned are all in the list handed to clustering
Collected(p) ==
    \A k \in 1..Len(feed[p].results) :
        \E i \in 1..Len(raw_results) :
            /\ raw_results[i].source = feed[p].results[k].source
            /\ raw_results[i].raw_data = feed[p].results[k].raw_data
            /\ raw_results[i].confidence = feed[p].results[k].confidence

\* C3: with the session open, when one capable provider's search raises (at
\* the call or when awaited), the results of every other capable provider are
\* still collected and enter clustering and ranking.
C3_ProviderFailureIsolated ==
    (/\ pc \in {"process", "done"}
     /\ session
     /\ Cardinality({p \in CapableSet : ProviderRaises(p)}) = 1)
    => \A p \in CapableSet : ~ProviderRaises(p) => Collected(p)

\* C7: after scoring, every result, raw or synthetic, appears once, carries its
\* composite in metadata['ai_score'], and has confidence
\* (confidence before scoring + that composite) / 2.
C7_BlendedOnce ==
    pc = "done" =>
        /\ Len(scored) = Len(processed)
        /\ \A i, j \in 1..Len(scored) : scored[i].id = scored[j].id => i = j
        /\ \A i \in 1..Len(scored) :
            /\ scored[i].id = processed[i].id
            /\ "ai_score" \in DOMAIN scored[i].metadata
            /\ scored[i].metadata["ai_score"] = _calculate_ai_confidence(processed[i], query)
            /\ scored[i].confidence =
                   QDiv(QAdd(processed[i].confidence, scored[i].metadata["ai_score"]),
                        QInt(2))

\* a search that scored a raw and a synthetic result and changed both confidences
C7_Witness ==
    /\ pc = "done"
    /\ \E i, j \in 1..Len(scored) :
        /\ IsSynthetic(scored[i]) /\ ~IsSynthetic(scored[j])
        /\ scored[i].confidence # processed[i].confidence
        /\ scored[j].confidence # processed[j].confidence

\* C8 as stated: the confidence of a cluster's synthetic result in the response
\* is the arithmetic mean of its members' blended confidences.
C8_MeanOfBlended ==
    pc = "done" =>
        \A i \in 1..Len(Final) :
            IsSynthetic(Final[i]) =>
                LET members == MembersOf(Final[i])
                IN  Final[i].confidence =
                        QMean([k \in 1..Len(members) |-> members[k].confidence])

\* C8 amended: the confidence of a cluster's synthetic result in the response
\* is the mean of its members' provider confidences (before scoring) blended
\* with the synthetic result's own composite: (mean + ai_score) / 2.
C8_MeanOfProviderThenBlended ==
    pc = "done" =>
        \A i \in 1..Len(Final) :
            IsSynthetic(Final[i]) =>
                LET members == groups[Final[i].metadata["entity_id"] + 1]
                    mean == QMean([k \in 1..Len(members) |-> members[k].confidence])
                IN  Final[i].confidence =
                        QDiv(QAdd(mean, Final[i].metadata["ai_score"]), QInt(2))

\* a returned synthetic result of a cluster of two members of different
\* provider confidence, whose confidence is not the mean of theirs after scoring
C8_Witness ==
    /\ pc = "done"
    /\ \E i \in 1..Len(Final) :
        /\ IsSynthetic(Final[i])
        /\ LET members == MembersOf(Final[i])
               raw == groups[Final[i].metadata["entity_id"] + 1]
           IN  /\ Len(members) = 2
               /\ raw[1].confidence # raw[2].confidence
               /\ Final[i].confidence #
                      QMean([k \in 1..Len(members) |-> members[k].confidence])

----------------------------------------------------------------------------
(* Claims checked under SpecCluster *)

\* the position in groups of the cluster that holds the result of identity id
ClusterOf(grps, id) ==
    CHOOSE k \in 1..Len(grps) : \E m \in 1..Len(grps[k]) : grps[k][m].id = id

SameCluster(a, b) == ClusterOf(groups, a.id) = ClusterOf(groups, b.id)

IsRepresentative(a) == groups[ClusterOf(groups, a.id)][1].id = a.id

SameFields(a, b) == _extract_comparison_fields(a) = _extract_comparison_fields(b)

\* a comparison field is present and no present one is empty
ComparableFields(a) ==
    /\ _extract_comparison_fields(a) # <<>>
    /\ \A f \in DOMAIN _extract_comparison_fields(a) : a.raw_data[f] # <<>>

NoSharedField(a, b) ==
    DOMAIN _extract_comparison_fields(a) \cap DOMAIN _extract_comparison_fields(b) = {}

Clustered == pc = "done" /\ raw_results # <<>>

\* C4: two results with identical name, email, phone and address fields are
\* in the same cluster, wherever they stand in the input and whatever else it
\* holds.
C4_IdenticalAlwaysTogether ==
    Clustered =>
        \A i, j \in 1..Len(raw_results) :
            SameFields(raw_results[i], raw_results[j])
                => SameCluster(raw_results[i], raw_results[j])

\* what the greedy loop does give: two results with identical name, email,
\* phone and address fields, at least one present and none empty, have
\* similarity 1.0 and are in the same cluster whenever the earlier one is a
\* cluster representative
IdenticalJoinRepresentative ==
    Clustered =>
        \A i, j \in 1..Len(raw_results) :
            (/\ i < j
             /\ SameFields(raw_results[i], raw_results[j])
             /\ ComparableFields(raw_results[i]))
            => /\ _calculate_entity_similarity(raw_results[i], raw_results[j]) = QInt(1)
               /\ IsRepresentative(raw_results[i])
                    => SameCluster(raw_results[i], raw_results[j])

\* two identical results with non-empty fields that the greedy loop put in
\* different clusters
IdenticalSeparated ==
    /\ Clustered
    /\ \E i, j \in 1..Len(raw_results) :
        /\ SameFields(raw_results[i], raw_results[j])
        /\ ComparableFields(raw_results[i])
        /\ ~SameCluster(raw_results[i], raw_results[j])

\* C5 as stated: two results with no field present in both are never members
\* of the same cluster, also when a representative shares a field with each.
C5_NoSharedFieldNeverTogether ==
    Clustered =>
        \A i, j \in 1..Len(raw_results) :
            (i # j /\ NoSharedField(raw_results[i], raw_results[j]))
                => ~SameCluster(raw_results[i], raw_results[j])

\* C5 amended: two results with no field present in both have similarity 0,
\* and when they are in the same cluster neither of them is its
\* representative: a third result that shares a field with each is.
C5_NoSharedFieldOnlyViaRepresentative ==
    Clustered =>
        \A i, j \in 1..Len(raw_results) :
            (i # j /\ NoSharedField(raw_results[i], raw_results[j]))
            => /\ _calculate_entity_similarity(raw_results[i], raw_results[j]) = QInt(0)
               /\ SameCluster(raw_results[i], raw_results[j])
                    => /\ ~IsRepresentative(raw_results[i])
                       /\ ~IsRepresentative(raw_results[j])

\* two results with comparison fields but none in common, in one cluster
C5_Witness ==
    /\ Clustered
    /\ \E i, j \in 1..Len(raw_results) :
        /\ i # j
        /\ NoSharedField(raw_results[i], raw_results[j])
        /\ _extract_comparison_fields(raw_results[i]) # <<>>
        /\ _extract_comparison_fields(raw_results[j]) # <<>>
        /\ SameCluster(raw_results[i], raw_results[j])

Similar(a, b) == QLt(MatchThreshold, _calculate_entity_similarity(a, b))

\* the results fall into pairwise-disjoint similarity classes: "more similar
\* than 0.8" is transitive on distinct results
DisjointClasses(results) ==
    \A i, j, k \in 1..Len(results) :
        (i # j /\ j # k /\ i # k
         /\ Similar(results[i], results[j]) /\ Similar(results[j], results[k]))
        => Similar(results[i], results[k])

Perms(n) == {f \in [1..n -> 1..n] : \A a, b \in 1..n : f[a] = f[b] => a = b}

\* the cluster memberships as a set of sets of result identities
Memberships(grps) ==
    {{grps[k][m].id : m \in 1..Len(grps[k])} : k \in 1..Len(grps)}

Representatives(grps) == {grps[k][1].id : k \in 1..Len(grps)}

\* C6: when the results fall into pairwise-disjoint similarity classes,
\* clustering them in any other input order yields the same memberships.
C6_OrderIndependent ==
    (Clustered /\ DisjointClasses(raw_results)) =>
        \A f \in Perms(Len(raw_results)) :
            Memberships(_group_results_by_entity(
                [i \in 1..Len(raw_results) |-> raw_results[f[i]]]))
                = Memberships(groups)

\* disjoint classes, one of them with two members, and an input order that
\* changes the representatives
C6_Witness ==
    /\ Clustered
    /\ DisjointClasses(raw_results)
    /\ Len(groups) >= 2
    /\ \E k \in 1..Len(groups) : Len(groups[k]) >= 2
    /\ \E f \in Perms(Len(raw_results)) :
        Representatives(_group_results_by_entity(
            [i \in 1..Len(raw_results) |-> raw_results[f[i]]]))
            # Representatives(groups)

----------------------------------------------------------------------------
(* Claims checked under SpecScore *)

InUnit(x) == QLe(QInt(0), x) /\ QLe(x, QInt(1))

\* C9: for every result and query, the quality, relevance and reliability
\* sub-scores and the composite all lie in [0,1], also for a raw timestamp
\* in the future or older than a year.
C9_ScoresInUnitInterval ==
    pc = "done" =>
        \A i \in 1..Len(processed) :
            /\ InUnit(_assess_data_quality(processed[i]))
            /\ InUnit(_assess_relevance(processed[i], query))
            /\ InUnit(_assess_source_reliability(processed[i].source))
            /\ InUnit(_calculate_ai_confidence(processed[i], query))

\* what the code does give: the composite is in [0,1], and so are the
\* relevance and reliability sub-scores
CompositeInUnitInterval ==
    pc = "done" =>
        \A i \in 1..Len(scored) :
            /\ InUnit(scored[i].metadata["ai_score"])
            /\ InUnit(_assess_relevance(processed[i], query))
            /\ InUnit(_assess_source_reliability(processed[i].source))
            /\ QLe(QInt(0), _assess_data_quality(processed[i]))

\* the blended confidence of the provider result of identity id
Blended(id) ==
    LET i == CHOOSE i \in 1..Len(scored) : scored[i].id = id
    IN  scored[i].confidence

\* raw_results is a result followed by the same result with one more raw field
AddsField(f) ==
    /\ pc = "done"
    /\ Len(raw_results) = 2
    /\ raw_results[1].confidence = raw_results[2].confidence
    /\ f \notin DOMAIN raw_results[1].raw_data
    /\ DOMAIN raw_results[2].raw_data = DOMAIN raw_results[1].raw_data \cup {f}
    /\ \A k \in DOMAIN raw_results[1].raw_data :
            raw_results[2].raw_data[k] = raw_results[1].raw_data[k]

\* raw_results is a result followed by the same result with a higher confidence
RaisesConfidence ==
    /\ pc = "done"
    /\ Len(raw_results) = 2
    /\ raw_results[1].raw_data = raw_results[2].raw_data
    /\ QLt(raw_results[1].confidence, raw_results[2].confidence)

\* C10 as stated: adding one more field to a result's raw fields, or raising
\* its provider confidence, never lowers its blended confidence.
C10_Monotonic ==
    (RaisesConfidence \/ \E n \in 1..5 : AddsField(ScoreFields[n]))
        => QLe(Blended(1), Blended(2))

\* C10 amended: raising the provider confidence never lowers the blended
\* confidence, and neither does adding a raw field that is not name, email,
\* phone or address, or adding an address when the query has no address.
C10_MonotonicOutsideComparedFields ==
    (\/ RaisesConfidence
     \/ AddsField("timestamp")
     \/ AddsField("address") /\ "address" \notin DOMAIN query.parameters)
        => QLe(Blended(1), Blended(2))

\* an added timestamp that raises the blend of a result with other fields
C10_Witness ==
    /\ AddsField("timestamp")
    /\ QLt(Blended(1), Blended(2))
    /\ raw_results[1].raw_data # <<>>

----------------------------------------------------------------------------
(* Claims checked under Spec: ranking order *)

\* the position in the scored list of the result of identity id
ScoredPosition(id) == CHOOSE i \in 1..Len(scored) : scored[i].id = id

\* C11: the ranked output is in non-increasing order of (confidence, ai_score),
\* and two results with an equal pair keep the relative order they had in the
\* scored list.
C11_SortedAndStable ==
    pc = "done" =>
        \A i, j \in 1..Len(Final) :
            i < j =>
                /\ ~KeyLt(SortKey(Final[i]), SortKey(Final[j]))
                /\ SortKey(Final[i]) = SortKey(Final[j])
                    => ScoredPosition(Final[i].id) < ScoredPosition(Final[j].id)

\* two results with an equal pair are returned behind a result that the sort
\* moved in front of them
C11_Witness ==
    /\ pc = "done"
    /\ \E i, j, k \in 1..Len(Final) :
        /\ k < i /\ i < j
        /\ SortKey(Final[i]) = SortKey(Final[j])
        /\ ScoredPosition(Final[k].id) > ScoredPosition(Final[j].id)

----------------------------------------------------------------------------
(* Claims checked under SpecCache *)

\* two result lists of the same length and order, equal result by result in
\* source, data_type, confidence, raw_data, timestamp and metadata
Equivalent(a, b) ==
    /\ Len(a) = Len(b)
    /\ \A i \in 1..Len(a) :
        /\ a[i].source = b[i].source
        /\ a[i].data_type = b[i].data_type
        /\ a[i].confidence = b[i].confidence
        /\ DOMAIN a[i].raw_data = DOMAIN b[i].raw_data
        /\ \A k \in DOMAIN a[i].raw_data : a[i].raw_data[k] = b[i].raw_data[k]
        /\ a[i].timestamp = b[i].timestamp
        /\ a[i].metadata = b[i].metadata

\* get_cached_results was asked for the id search() cached under, with Redis
\* up, at a time when an entry put by search() cannot have expired
GotWithinTTL ==
    /\ pc = "got"
    /\ cached.query_id = response.query_id
    /\ persistence # "redis_fails"
    /\ IF redis.is_none THEN cached.at < CacheTTL
       ELSE cached.at < redis.v.set_at + CacheTTL

\* C12: a get_cached_results issued for the query id before the TTL expires
\* returns a list equivalent to the ranked list search() produced: same length
\* and order, each result equal in source, data_type, confidence, raw_data,
\* timestamp and metadata.
C12_CacheRoundTrip ==
    (GotWithinTTL /\ persistence = "ok") =>
        /\ ~cached.value.is_none
        /\ Equivalent(cached.value.v, response.results)

\* what the code does give: the round trip is exact for the lists whose
\* raw_data holds texts only
JsonNativeRoundTrip ==
    (/\ GotWithinTTL
     /\ \A i \in 1..Len(response.results) :
            DOMAIN response.results[i].raw_data \cap {"aliases", "timestamp"} = {})
    => /\ ~cached.value.is_none
       /\ Equivalent(cached.value.v, response.results)

\* a non-empty ranked list came back from the cache unchanged
RoundTripReached ==
    /\ GotWithinTTL
    /\ response.results # <<>>
    /\ ~cached.value.is_none
    /\ Equivalent(cached.value.v, response.results)

\* C13: the entry is stored with a TTL of 3600 seconds, and a
\* get_cached_results for its query id issued 3600 seconds or more after the
\* put returns None.
C13_AbsentAfterTTL ==
    /\ ~redis.is_none => redis.v.ttl = 3600
    /\ (/\ pc = "got"
        /\ ~redis.is_none
        /\ cached.query_id = response.query_id
        /\ cached.at >= redis.v.set_at + 3600)
       => cached.value.is_none

\* a non-empty list was cached, and the get came exactly when the TTL elapsed
C13_Witness ==
    /\ pc = "got"
    /\ persistence = "ok"
    /\ ~redis.is_none
    /\ redis.v.set_at > 0
    /\ redis.v.value.results # <<>>
    /\ cached.query_id = response.query_id
    /\ cached.at = redis.v.set_at + 3600
    /\ cached.value.is_none

\* C14: when the cache put or the index write fails, search() still returns,
\* with exactly the ranked list it computed; the failure is not raised.
C14_PersistenceFailureHarmless ==
    /\ pc = "raised" => _enhance_query(query).raised
    /\ pc \in {"done", "got"} =>
        /\ response.results = _filter_and_rank_results(scored, query)
        /\ response.total_results = Len(response.results)

\* search() returned a non-empty list although Redis, or Elasticsearch, failed
C14_Witness ==
    /\ pc = "done"
    /\ response.results # <<>>
    /\ \/ persistence = "redis_fails" /\ redis.is_none /\ es = <<>>
       \/ persistence = "index_fails" /\ ~redis.is_none /\ es = <<>>

----------------------------------------------------------------------------
(* Claims checked under SpecFilter *)

\* the filter entry of that name, None when the entry is missing or None
FilterEntry(q, name) ==
    IF name \in DOMAIN q.filters THEN q.filters[name] ELSE NoneV

\* the date range the query asks for
RequestedRange(q) ==
    IF ~FilterEntry(q, "date_range").is_none THEN FilterEntry(q, "date_range")
    ELSE q.date_range

InRange(r, range) ==
    \/ range.is_none
    \/ /\ range.v.start = 0 \/ r.timestamp >= range.v.start
       /\ range.v.end = 0 \/ r.timestamp <= range.v.end

Allowed(r, q) ==
    /\ InRange(r, RequestedRange(q))
    /\ FilterEntry(q, "sources").is_none \/ r.source \in FilterEntry(q, "sources").v
    /\ FilterEntry(q, "exclude_sources").is_none
        \/ r.source \notin FilterEntry(q, "exclude_sources").v
    /\ FilterEntry(q, "data_types").is_none
        \/ r.data_type \in FilterEntry(q, "data_types").v

FannedOut == pc \in {"process", "done"} /\ fanout_error = "no"

\* C15: the results handed to clustering hold no result with a timestamp
\* outside the requested date range, with a source missing from the allow-list
\* or present in the deny-list, or with a filtered-out data type; and when
\* every filter entry is None nothing is dropped.
C15_FiltersRespected ==
    FannedOut =>
        /\ \A i \in 1..Len(raw_results) : Allowed(raw_results[i], query)
        /\ (/\ \A name \in DOMAIN query.filters : query.filters[name].is_none
            /\ query.date_range.is_none)
           => raw_results = collected

\* what the code does give: the entries 'date_range', 'sources' and
\* 'data_types' of filters, when they are there and not None, are respected
CodeFiltersRespected ==
    FannedOut =>
        \A i \in 1..Len(raw_results) :
            /\ InRange(raw_results[i], FilterEntry(query, "date_range"))
            /\ FilterEntry(query, "sources").is_none
                \/ raw_results[i].source \in FilterEntry(query, "sources").v
            /\ FilterEntry(query, "data_types").is_none
                \/ raw_results[i].data_type \in FilterEntry(query, "data_types").v

\* a result of a denied source was handed to clustering
DeniedSourceKept ==
    /\ FannedOut
    /\ ~FilterEntry(query, "exclude_sources").is_none
    /\ \E i \in 1..Len(raw_results) :
        raw_results[i].source \in FilterEntry(query, "exclude_sources").v

\* a filter set whose entries are all None dropped every result
UnsetFiltersDropAll ==
    /\ FannedOut
    /\ query.filters = UnsetFilters
    /\ collected # <<>>
    /\ raw_results = <<>>

\* a filter of the code dropped some results and kept others
FilterApplied ==
    /\ FannedOut
    /\ raw_results # <<>>
    /\ Len(raw_results) < Len(collected)

----------------------------------------------------------------------------
(* Claims checked under SpecQuery *)

\* C16: normalisation never fails the whole query: whatever the field values,
\* malformed ones included, search does not raise out of _enhance_query but
\* goes on to the fan-out.
C16_NormalisationNeverFails == pc # "raised"

\* search raised on an email with more than one '@'
MalformedEmailRaises ==
    /\ pc = "raised"
    /\ DOMAIN query.parameters = {"email"}
    /\ Len(Split(query.parameters["email"], "@")) > 2

\* search raised on a query by name
NameRaises ==
    /\ pc = "raised"
    /\ DOMAIN query.parameters = {"name"}

\* what the code does give: without a name and without an email of more than
\* one '@', normalisation returns and search goes on
OtherFieldsNeverFail ==
    (/\ "name" \notin DOMAIN query.parameters
     /\ "email" \in DOMAIN query.parameters
            => Len(Split(query.parameters["email"], "@")) <= 2)
    => pc # "raised"

AddressEnhanced ==
    /\ pc = "done"
    /\ "address" \in DOMAIN query.parameters
    /\ "street_address" \in DOMAIN query.parameters

\* the step of search in which _enhance_query returns
Enhances == pc = "idle" /\ pc' \notin {"idle", "raised"}

\* C17: normalisation only adds derived fields: every key of the caller's
\* field mapping is still there after _enhance_query with the value the
\* caller gave it.
C17_OnlyAddsFields ==
    [][Enhances =>
        \A k \in DOMAIN query.parameters :
            /\ k \in DOMAIN query'.parameters
            /\ query'.parameters[k] = query.parameters[k]]_vars

\* what the code does give: no key is deleted
NoKeyDeleted ==
    [][Enhances => DOMAIN query.parameters \subseteq DOMAIN query'.parameters]_vars

\* a caller-supplied city beside an address was replaced by the parsed one
CityReplaced ==
    /\ pc = "done"
    /\ "address" \in DOMAIN query.parameters
    /\ query.parameters["address"] = T_a_comma_b
    /\ query.parameters["city"] = <<"b">>

Malformed(q) ==
    \/ QLt(q.confidence_threshold, Q(0, 1))
    \/ QLt(Q(1, 1), q.confidence_threshold)
    \/ q.max_results < 1
    \/ DOMAIN q.parameters = {}

\* C18: a malformed query (threshold outside [0, 1], result count below 1, no
\* field at all) is rejected before any provider is invoked: search never
\* gets to the fan-out, the scoring or the caching for it.
C18_MalformedRejected ==
    Malformed(query) => pc \notin {"await", "sleep", "process", "done"}

\* a query with a threshold below 0 and a result count below 0 was fanned
\* out, answered with results and cached
MalformedAnswered ==
    /\ pc = "done"
    /\ QLt(query.confidence_threshold, Q(0, 1))
    /\ query.max_results < 0
    /\ response.results # <<>>
    /\ ~redis.is_none

\* an empty field mapping went through the whole pipeline
EmptyQueryAnswered ==
    /\ pc = "done"
    /\ DOMAIN query.parameters = {}

----------------------------------------------------------------------------
(* Claims checked under SpecHang *)

Hangs(p) == feed[p].kind = "hang"

\* C19: a provider whose search never returns does not block the rest of the
\* fan-out: search eventually leaves the fan-out and goes on to scoring and
\* ranking with the results that did arrive.
C19_SlowProviderDoesNotBlock == <>(pc \in {"process", "done"})

\* search is waiting for a provider that never returns while a later capable
\* provider, which would answer, has not been awaited
BlockedBeforeOthers ==
    /\ pc = "await"
    /\ Hangs(tasks[idx])
    /\ idx < Len(tasks)
    /\ \E j \in (idx + 1)..Len(tasks) :
        ~Hangs(tasks[j]) /\ feed[tasks[j]].results # <<>>

\* search is waiting for a provider that never returns after others answered
BlockedWithResults ==
    /\ pc = "await"
    /\ Hangs(tasks[idx])
    /\ collected # <<>>

\* what the code does give: when every provider's search completes, search
\* leaves the fan-out
CompletesWithoutHang ==
    (\A p \in Providers : ~Hangs(p)) => <>(pc \in {"process", "done"})

----------------------------------------------------------------------------
(* Claims checked under SpecLeak *)

\* the search by email that follows the save of leak_batch
SearchedByEmail == leak_found.called /\ leak_found.search_type = "email"

Carries(found, record) ==
    /\ found.email = record.email
    /\ found.password = record.password
    /\ found.domain = record.domain
    /\ found.breach_name = record.breach_name
    /\ found.source = record.source

\* C20: leak-store round trip: after save_records_to_database(records),
\* search_database(e, 'email') for the email e of any record of the batch
\* returns a record with that email and the saved password, domain, breach
\* name and source; when no stored record matches it returns an empty list.
C20_LeakRoundTrip ==
    SearchedByEmail =>
        /\ \A i \in 1..Len(leak_batch) :
            leak_batch[i].email = leak_found.query
                => \E j \in 1..Len(leak_found.value) :
                       Carries(leak_found.value[j], leak_batch[i])
        /\ (\A k \in 1..Len(leak_db) : ~Like(Some(leak_db[k].email), leak_found.query))
                => leak_found.value = <<>>

\* what the code does give: every row the store holds comes back from the
\* search for its email, field by field, and nothing else matching is lost
StoredRowsFound ==
    SearchedByEmail =>
        /\ \A k \in 1..Len(leak_db) :
            leak_db[k].email = leak_found.query
                => \E j \in 1..Len(leak_found.value) :
                       /\ Carries(leak_found.value[j], leak_db[k])
                       /\ leak_found.value[j].confidence = leak_db[k].confidence
        /\ \A j \in 1..(Len(leak_found.value) - 1) :
            QLe(leak_found.value[j + 1].confidence, leak_found.value[j].confidence)
        /\ (\A k \in 1..Len(leak_db) : ~Like(Some(leak_db[k].email), leak_found.query))
                => leak_found.value = <<>>

\* a record of the batch was ignored for sharing email, password and breach
\* name with a stored one, and the search did not return its domain
SameKeyIgnored ==
    /\ SearchedByEmail
    /\ \E i \in 1..Len(leak_batch) :
        /\ leak_batch[i].email = leak_found.query
        /\ \E k \in 1..Len(leak_db) :
            /\ leak_db[k].email = leak_batch[i].email
            /\ leak_db[k].password = leak_batch[i].password
            /\ leak_db[k].domain # leak_batch[i].domain
        /\ \A j \in 1..Len(leak_found.value) :
            ~Carries(leak_found.value[j], leak_batch[i])

\* a record with the password 'None' was ignored after one without password
NonePasswordIgnored ==
    /\ SearchedByEmail
    /\ \E i \in 1..Len(leak_batch) :
        /\ leak_batch[i].email = leak_found.query
        /\ leak_batch[i].password = Some(T_None)
        /\ \A j \in 1..Len(leak_found.value) :
            leak_found.value[j].password # Some(T_None)

\* the search found the records of a batch
BatchFound ==
    /\ SearchedByEmail
    /\ Len(leak_batch) = MaxLeakBatch
    /\ Len(leak_found.value) = MaxLeakBatch
    /\ \A i \in 1..Len(leak_batch) :
        \E j \in 1..Len(leak_found.value) : Carries(leak_found.value[j], leak_batch[i])

\* the search on a store without a matching record
NoMatchSearched ==
    /\ SearchedByEmail
    /\ leak_db # <<>>
    /\ leak_found.value = <<>>

----------------------------------------------------------------------------
(* Claims checked under SpecGreedy *)

\* the position in raw_results of the result of identity id
PositionOf(id) == CHOOSE i \in 1..Len(raw_results) : raw_results[i].id = id

\* the clusters as they stood when the result at position i came in: the
\* members at earlier positions, clusters without such a member left out
ClustersBefore(i) ==
    SelectSeq([k \in 1..Len(groups) |->
                  SelectSeq(groups[k], LAMBDA r : PositionOf(r.id) < i)],
              LAMBDA g : g # <<>>)

\* the similarity of the result at position i to the representative of the
\* k-th cluster that existed when it came in
ToRepresentative(i, k) ==
    _calculate_entity_similarity(raw_results[i], ClustersBefore(i)[k][1])

\* the clusters of highest similarity among those above the threshold
BestClusters(i) ==
    {k \in 1..Len(ClustersBefore(i)) :
        /\ QLt(MatchThreshold, ToRepresentative(i, k))
        /\ \A j \in 1..Len(ClustersBefore(i)) :
            QLe(ToRepresentative(i, j), ToRepresentative(i, k))}

\* C21: greedy single pass: each result is compared with the first-inserted
\* member of every existing cluster; it joins the cluster of highest
\* similarity when that similarity strictly exceeds 0.8, the earliest-created
\* one on a tie, and starts a new cluster otherwise (also at exactly 0.8); a
\* cluster's first member stays its first member.
C21_GreedySinglePass ==
    Clustered =>
        /\ \A i \in 1..Len(raw_results) :
            IF BestClusters(i) = {}
            THEN /\ ClusterOf(groups, raw_results[i].id) = Len(ClustersBefore(i)) + 1
                 /\ groups[Len(ClustersBefore(i)) + 1][1].id = raw_results[i].id
            ELSE /\ ClusterOf(groups, raw_results[i].id) \in BestClusters(i)
                 /\ \A k \in BestClusters(i) : ClusterOf(groups, raw_results[i].id) <= k
        /\ \A k \in 1..Len(groups) :
            \A m \in 1..Len(groups[k]) :
                PositionOf(groups[k][1].id) <= PositionOf(groups[k][m].id)

\* a result equally similar, above 0.8, to the representatives of two clusters
C21_Witness ==
    /\ Clustered
    /\ \E i \in 1..Len(raw_results) :
        /\ Cardinality(BestClusters(i)) >= 2
        /\ ClusterOf(groups, raw_results[i].id) < Len(ClustersBefore(i))

\* a result whose best similarity is exactly 0.8 started a cluster
ExactThresholdStartsNew ==
    /\ Clustered
    /\ \E i \in 1..Len(raw_results) :
        /\ ClustersBefore(i) # <<>>
        /\ \E k \in 1..Len(ClustersBefore(i)) : ToRepresentative(i, k) = MatchThreshold
        /\ groups[ClusterOf(groups, raw_results[i].id)][1].id = raw_results[i].id

\* the comparison fields present in both results
PresentInBoth(a, b) ==
    DOMAIN _extract_comparison_fields(a) \cap DOMAIN _extract_comparison_fields(b)

\* the comparison fields present and not empty in both results
NonEmptyInBoth(a, b) ==
    {f \in PresentInBoth(a, b) : a.raw_data[f] # <<>> /\ b.raw_data[f] # <<>>}

AgreeOn(a, b, fields) == \A f \in fields : a.raw_data[f] = b.raw_data[f]

\* C22: entity similarity is the mean over compared fields only: a field
\* missing or empty in either result is left out of the mean, so two results
\* that agree on every field that is non-empty in both have similarity 1.0.
C22_MeanOverComparedFields ==
    Clustered =>
        \A i, j \in 1..Len(raw_results) :
            (/\ NonEmptyInBoth(raw_results[i], raw_results[j]) # {}
             /\ AgreeOn(raw_results[i], raw_results[j],
                        NonEmptyInBoth(raw_results[i], raw_results[j])))
            => _calculate_entity_similarity(raw_results[i], raw_results[j]) = QInt(1)

\* what the code does give: a field missing from either result is left out of
\* the mean
MissingFieldsLeftOut ==
    Clustered =>
        \A i, j \in 1..Len(raw_results) :
            (/\ NonEmptyInBoth(raw_results[i], raw_results[j]) # {}
             /\ NonEmptyInBoth(raw_results[i], raw_results[j])
                    = PresentInBoth(raw_results[i], raw_results[j])
             /\ AgreeOn(raw_results[i], raw_results[j],
                        PresentInBoth(raw_results[i], raw_results[j])))
            => _calculate_entity_similarity(raw_results[i], raw_results[j]) = QInt(1)

\* two results with the same email, one also with a name the other lacks
MissingFieldCompared ==
    /\ Clustered
    /\ \E i, j \in 1..Len(raw_results) :
        /\ DOMAIN raw_results[i].raw_data = {"email"}
        /\ DOMAIN raw_results[j].raw_data = {"name", "email"}
        /\ raw_results[j].raw_data["name"] # <<>>
        /\ _calculate_entity_similarity(raw_results[i], raw_results[j]) = QInt(1)

\* an empty name beside an equal email halved the similarity
EmptyFieldPenalised ==
    /\ Clustered
    /\ \E i, j \in 1..Len(raw_results) :
        /\ NonEmptyInBoth(raw_results[i], raw_results[j]) = {"email"}
        /\ raw_results[i].raw_data["email"] = raw_results[j].raw_data["email"]
        /\ _calculate_entity_similarity(raw_results[i], raw_results[j]) = Q(1, 2)

----------------------------------------------------------------------------
(* Claims checked under Spec: pacing of the fan-out *)

\* the step in which the await of one provider is followed at once by the
\* await of the next
AwaitsNextAtOnce == pc = "await" /\ pc' = "await" /\ idx' = idx + 1

\* C23: pacing: between the awaits of two successive providers the delay
\* elapses, also when the earlier provider raised or returned nothing; there
\* is no delay after the last provider; the providers run one at a time in
\* registry order.
C23_DelayBetweenInvocations ==
    [][/\ ~AwaitsNextAtOnce
       /\ (pc = "await" /\ idx = Len(tasks)) => pc' = "process"
       /\ (pc = "sleep") => (pc' = "await" /\ idx' = idx + 1 /\ idx' <= Len(tasks))]_vars

\* what the code does give: the delay elapses after a provider that returned,
\* a result or nothing, and not after the last one; the providers are awaited
\* in registry order
DelayAfterReturn ==
    [][/\ (pc = "await" /\ idx < Len(tasks) /\ feed[tasks[idx]].kind # "raise_await")
            => pc' = "sleep"
       /\ (pc = "await" /\ idx = Len(tasks)) => pc' = "process"
       /\ (pc = "await") =>
            \A i, j \in 1..Len(tasks) :
                i < j => \E a, b \in 1..Len(Registry) :
                            a < b /\ Registry[a] = tasks[i] /\ Registry[b] = tasks[j]]_vars

\* the second provider is being awaited after the first one raised
AwaitedAfterRaise ==
    /\ pc = "await"
    /\ idx = 2
    /\ feed[tasks[1]].kind = "raise_await"

\* the delay is running after a provider that returned nothing
DelayAfterNone ==
    /\ pc = "sleep"
    /\ feed[tasks[idx]].kind = "none"

----------------------------------------------------------------------------
(* Claims checked under SpecScore: the consistency sub-score *)

\* neither the name-against-email check nor the phone-format check applies
NoCheckApplies(data) ==
    /\ ~("name" \in DOMAIN data /\ "email" \in DOMAIN data)
    /\ "phone" \notin DOMAIN data

\* C24: when no internal-consistency check applies to a result (it has neither
\* both name and email nor a phone), its consistency sub-score is 1.0.
C24_NoChecksFullConsistency ==
    pc = "done" =>
        \A i \in 1..Len(processed) :
            NoCheckApplies(processed[i].raw_data)
                => _assess_data_consistency(processed[i].raw_data) = QInt(1)

\* what the code does give: with no check applicable the sub-score is 0.0,
\* and with a check applicable and no conflict it is 1.0
NoChecksZeroConsistency ==
    pc = "done" =>
        \A i \in 1..Len(processed) :
            /\ NoCheckApplies(processed[i].raw_data)
                => _assess_data_consistency(processed[i].raw_data) = QInt(0)
            /\ (/\ DOMAIN processed[i].raw_data = {"phone"}
                /\ PhoneShaped(processed[i].raw_data["phone"]))
                => _assess_data_consistency(processed[i].raw_data) = QInt(1)

\* a result holding only an email was scored: no check applies, quality 0.1
SparsePenalised ==
    /\ pc = "done"
    /\ \E i \in 1..Len(processed) :
        /\ DOMAIN processed[i].raw_data = {"email"}
        /\ _assess_data_quality(processed[i]) = Q(1, 10)

\* a result holding only a well-formed phone was scored: quality 0.4
PhoneOnlyScored ==
    /\ pc = "done"
    /\ \E i \in 1..Len(processed) :
        /\ DOMAIN processed[i].raw_data = {"phone"}
        /\ PhoneShaped(processed[i].raw_data["phone"])
        /\ _assess_data_quality(processed[i]) = Q(4, 10)

----------------------------------------------------------------------------
(* Claims checked under SpecMerge *)

\* the provider results among the correlated ones, with the raw_data each had
\* when its provider delivered it
Delivered(r) == raw_results[PositionOf(r.id)].raw_data

Members == {i \in 1..Len(processed) : processed[i].id > 0}

\* C25: correlating a cluster changes only the metadata (and later the
\* confidence) of its members: after the merge every member's own raw_data,
\* list-valued and dict-valued fields of the first member included, is as the
\* provider delivered it.
C25_MembersRawDataUntouched ==
    Clustered =>
        \A i \in Members : processed[i].raw_data = Delivered(processed[i])

\* what the code does give: source, data type, timestamp and every raw value
\* that is not a list or a dict are as delivered, and no member but the first
\* holder of a list or dict key has that value changed
OnlySharedValuesChange ==
    Clustered =>
        \A i \in Members :
            /\ processed[i].source = raw_results[PositionOf(processed[i].id)].source
            /\ processed[i].data_type = raw_results[PositionOf(processed[i].id)].data_type
            /\ processed[i].timestamp = raw_results[PositionOf(processed[i].id)].timestamp
            /\ DOMAIN processed[i].raw_data = DOMAIN Delivered(processed[i])
            /\ \A k \in DOMAIN processed[i].raw_data :
                processed[i].raw_data[k] # Delivered(processed[i])[k]
                    => /\ IsInstance(k, "list") \/ IsInstance(k, "dict")
                       /\ \A j \in Members :
                            (/\ j # i
                             /\ SameCluster(processed[i], processed[j])
                             /\ k \in DOMAIN processed[j].raw_data)
                            => PositionOf(processed[i].id) < PositionOf(processed[j].id)

\* the first member's list of phones grew by a later member's
FirstMemberListGrew ==
    /\ Clustered
    /\ \E i \in Members :
        /\ "phones" \in DOMAIN processed[i].raw_data
        /\ Len(processed[i].raw_data["phones"].list)
            > Len(Delivered(processed[i])["phones"].list)

\* the first member's employment dict was updated from a later member's
FirstMemberDictUpdated ==
    /\ Clustered
    /\ \E i \in Members :
        /\ "employment" \in DOMAIN processed[i].raw_data
        /\ processed[i].raw_data["employment"] # Delivered(processed[i])["employment"]

----------------------------------------------------------------------------
(* Claims checked under SpecAdvanced *)

\* advanced_search was called while the cache held an unexpired entry for
\* the query_id
CalledOnEntry == cached.called /\ cached.entry

\* C26: advanced_search checks the cache first: when the cache holds an
\* unexpired entry for the query_id it returns the cached list, the empty one
\* too, with search_time 0.0 and metadata cached=True, and runs no fan-out.
C26_CacheFirst ==
    CalledOnEntry =>
        /\ pc = "served"
        /\ ~cached.value.is_none
        /\ response.results = cached.value.v
        /\ response.search_time = QInt(0)
        /\ response.metadata = [cached |-> TRUE]

\* what the code does give: a cached list that is not empty is returned from
\* the cache, the cache is left as it was, and without an entry search() runs
CacheFirstWhenNonEmpty ==
    cached.called =>
        IF ~cached.value.is_none /\ cached.value.v # <<>>
        THEN /\ pc = "served"
             /\ response.results = cached.value.v
             /\ response.search_time = QInt(0)
             /\ response.metadata = [cached |-> TRUE]
             /\ redis.v.set_at <= cached.at
        ELSE pc # "served"

\* the cached list was returned
ServedFromCache ==
    /\ CalledOnEntry
    /\ pc = "served"
    /\ response.results # <<>>

\* a second fan-out is running although the cache holds the empty list
SecondFanOut ==
    /\ CalledOnEntry
    /\ pc = "await"
    /\ cached.value = Some(<<>>)

----------------------------------------------------------------------------
(* Claims checked under SpecGreedy: the clusters and their correlation *)

\* the places <<k, m>> of groups that hold the result of identity id
PlacesOf(id) ==
    {km \in (1..Len(groups)) \X (1..Len(raw_results)) :
        km[2] <= Len(groups[km[1]]) /\ groups[km[1]][km[2]].id = id}

\* the number of entries _process_results emits before those of cluster k
RECURSIVE EntriesBefore(_)
EntriesBefore(k) ==
    IF k = 1 THEN 0 ELSE EntriesBefore(k - 1) + Len(groups[k - 1]) + 1

\* C27: clustering is a partition of its input: every input result is in
\* exactly one cluster, no cluster is empty and every member is an input
\* result, the cluster ids are pairwise distinct, and _process_results emits
\* for each cluster one synthetic result (source_count the number of members,
\* sources the members' sources in order) followed by the cluster's members:
\* n + k entries for n results and k clusters.
C27_ClustersPartitionInput ==
    pc = "done" =>
        /\ \A i \in 1..Len(raw_results) :
            Cardinality(PlacesOf(raw_results[i].id)) = 1
        /\ \A k \in 1..Len(groups) :
            /\ groups[k] # <<>>
            /\ \A m \in 1..Len(groups[k]) :
                \E i \in 1..Len(raw_results) : raw_results[i] = groups[k][m]
        /\ Len(processed) = Len(raw_results) + Len(groups)
        /\ \A k \in 1..Len(groups) :
            LET synthetic == processed[EntriesBefore(k) + 1]
            IN  /\ synthetic.source = "entity_correlation"
                /\ synthetic.metadata["source_count"] = Len(groups[k])
                /\ synthetic.metadata["sources"] =
                        [m \in 1..Len(groups[k]) |-> groups[k][m].source]
                /\ \A j \in 1..Len(groups) :
                        j # k => processed[EntriesBefore(j) + 1].metadata["entity_id"]
                                    # synthetic.metadata["entity_id"]
                /\ \A m \in 1..Len(groups[k]) :
                    /\ processed[EntriesBefore(k) + 1 + m].id = groups[k][m].id
                    /\ processed[EntriesBefore(k) + 1 + m].metadata["correlated_entity_id"]
                            = synthetic.metadata["entity_id"]

\* four results in two clusters, one of them a singleton
C27_Witness ==
    /\ pc = "done"
    /\ Len(raw_results) = MaxClusterInput
    /\ Len(groups) = 2
    /\ \E k \in 1..Len(groups) : Len(groups[k]) = 1

----------------------------------------------------------------------------
(* Claims checked under SpecAuth *)

\* the account is locked now: locked_until is set and lies ahead
Locked(username) ==
    /\ ~users[username].locked_until.is_none
    /\ time_now < users[username].locked_until.v

\* C28: account lockout.  For every account, a step changes locked_until only
\* if it is an authenticate_user call for that account with a wrong password
\* that raises failed_login_attempts by one to at least 5 (and then the lock
\* ends 30 minutes after the call); a call made while the account is locked
\* returns no user, whatever the password, and leaves the account as it was;
\* and a call that returns the user leaves failed_login_attempts at 0.
C28_AccountLockout ==
    [][\A username \in DOMAIN users :
        LET called == login'.n = login.n + 1 /\ login'.username = username
            before == users[username]
            after == users'[username]
        IN  /\ after.locked_until # before.locked_until =>
                /\ called
                /\ ~verify_password(login'.password, MOCK_PASSWORD_HASHES[username])
                /\ after.failed_login_attempts = before.failed_login_attempts + 1
                /\ after.failed_login_attempts >= LockAttempts
                /\ after.locked_until = Some(time_now + 60 * LockMinutes)
            /\ called /\ Locked(username) =>
                /\ login'.value = NoneV
                /\ after = before
            /\ called /\ login'.value = Some(username) =>
                after.failed_login_attempts = 0
            /\ ~called => after = before]_vars

\* a locked account was just refused although the password was the right one
C28_Witness ==
    /\ login.n > 0
    /\ login.username = "admin"
    /\ login.at = time_now
    /\ Locked("admin")
    /\ verify_password(login.password, MOCK_PASSWORD_HASHES["admin"])
    /\ login.value = NoneV
    /\ users["admin"].failed_login_attempts = LockAttempts

\* after the lock has run out a right password logs in and clears the count
LoginAfterLock ==
    /\ login.n > 0
    /\ login.username = "admin"
    /\ login.value = Some("admin")
    /\ ~users["admin"].locked_until.is_none
    /\ login.at >= users["admin"].locked_until.v
    /\ users["admin"].failed_login_attempts = 0

\* after the lock has run out one more wrong password locks the account again
LockedAgain ==
    /\ login.n > 0
    /\ login.username = "admin"
    /\ users["admin"].failed_login_attempts = LockAttempts + 1
    /\ Locked("admin")

----------------------------------------------------------------------------
(* Claims checked under SpecLimit *)

\* the calls of one user answered True, as positions of answers
AllowedCalls(user_id) ==
    {i \in 1..Len(answers) : answers[i].user_id = user_id /\ answers[i].value}

\* the position of the last call of a user, 0 if there is none
LastCall(user_id) ==
    LET calls == {i \in 1..Len(answers) : answers[i].user_id = user_id}
    IN  IF calls = {} THEN 0 ELSE CHOOSE i \in calls : \A j \in calls : j <= i

\* the times of the first k calls that were answered True to the user
RECURSIVE AllowedTimes(_, _)
AllowedTimes(user_id, k) ==
    IF k = 0 THEN <<>>
    ELSE IF answers[k].user_id = user_id /\ answers[k].value
         THEN Append(AllowedTimes(user_id, k - 1), answers[k].at)
         ELSE AllowedTimes(user_id, k - 1)

\* what a limiter that saw only this user's calls among the first k holds
RECURSIVE Alone(_, _)
Alone(user_id, k) ==
    IF k = 0 THEN <<>>
    ELSE IF answers[k].user_id = user_id
         THEN is_allowed(Alone(user_id, k - 1), user_id, answers[k].at).requests
         ELSE Alone(user_id, k - 1)

\* C29: sliding-window rate limit.  The times of the calls run in
\* non-decreasing order, and for every user: the calls answered True within
\* any interval shorter than window_seconds number at most max_requests;
\* the times recorded for the user are those of its calls answered True that
\* lay inside the window at its last call, so a denied call is not recorded;
\* and each answer is the one a limiter that saw only this user's calls
\* would have given.
C29_SlidingWindow ==
    /\ \A i, j \in 1..Len(answers) : i <= j => answers[i].at <= answers[j].at
    /\ \A user_id \in {"u1", "u2"} :
        /\ \A i \in AllowedCalls(user_id) :
              Cardinality({j \in AllowedCalls(user_id) :
                              /\ j <= i
                              /\ answers[i].at - answers[j].at < window_seconds})
                  <= max_requests
        /\ LastCall(user_id) = 0 => user_id \notin DOMAIN requests
        /\ LastCall(user_id) > 0 =>
              LET last == answers[LastCall(user_id)].at
                  Kept(req_time) == last - req_time < window_seconds
              IN  /\ user_id \in DOMAIN requests
                  /\ requests[user_id] =
                        SelectSeq(AllowedTimes(user_id, Len(answers)), Kept)
        /\ \A i \in 1..Len(answers) :
              answers[i].user_id = user_id =>
                  answers[i].value =
                      is_allowed(Alone(user_id, i - 1), user_id, answers[i].at).value

\* a user at its limit was denied after another user's call had been allowed
C29_Witness ==
    \E i, j, k \in 1..Len(answers) :
        /\ i < j /\ j < k
        /\ answers[i].user_id = "u1" /\ answers[i].value
        /\ answers[j].user_id = "u2" /\ answers[j].value
        /\ answers[k].user_id = "u1" /\ ~answers[k].value
        /\ Len(requests["u1"]) = max_requests

\* a denied user is allowed again once its oldest call has left the window
AllowedAfterWindow ==
    \E i, j \in 1..Len(answers) :
        /\ i < j
        /\ answers[i].user_id = "u1" /\ ~answers[i].value
        /\ answers[j].user_id = "u1" /\ answers[j].value
        /\ answers[j].at > answers[i].at

----------------------------------------------------------------------------
(* Claims checked under SpecLeak: saving *)

\* the (email, password, breach_name) of a record or of a row
Triple(r) == <<r.email, r.password, r.breach_name>>

\* saving the record raises inside its iteration
SaveRaises(record) ==
    ~record.timestamp.is_none /\ "v" \notin DOMAIN record.timestamp

\* C30: saving is idempotent and deduplicating.  After every step no two rows
\* of the store hold the same (email, password, breach_name); every row that
\* was stored before the step is still there, at its place and unchanged, and
\* the step adds no row for a triple that was stored already; and every
\* record of the batch just saved whose own save did not raise is in the
\* store under its deduplication key, whichever other records of the batch
\* raised.
C30_SaveIdempotent ==
    [][/\ \A i, j \in 1..Len(leak_db') :
              Triple(leak_db'[i]) = Triple(leak_db'[j]) => i = j
       /\ Len(leak_db') >= Len(leak_db)
       /\ \A k \in 1..Len(leak_db) : leak_db'[k] = leak_db[k]
       /\ \A k \in (Len(leak_db) + 1)..Len(leak_db') :
              \A i \in 1..Len(leak_db) : Triple(leak_db'[k]) # Triple(leak_db[i])
       /\ \A n \in 1..Len(leak_batch') :
              ~SaveRaises(leak_batch'[n]) =>
                  \E k \in 1..Len(leak_db') :
                      leak_db'[k].hash = RecordHash(leak_batch'[n])]_vars

\* the first record of a batch raised and the second one was saved by the
\* same call
C30_Witness ==
    /\ Len(leak_batch) = 2
    /\ SaveRaises(leak_batch[1])
    /\ ~SaveRaises(leak_batch[2])
    /\ Triple(leak_batch[2]) # Triple(leak_batch[1])
    /\ Len(leak_db) = 1
    /\ Triple(leak_db[1]) = Triple(leak_batch[2])
    /\ leak_db[1].source = leak_batch[2].source

\* a stored triple was saved again with other values: the row keeps the
\* values saved first
FirstSavedKept ==
    /\ Len(leak_batch) = 1
    /\ Len(leak_db) = 1
    /\ Triple(leak_db[1]) = Triple(leak_batch[1])
    /\ leak_db[1].source # leak_batch[1].source
    /\ leak_db[1].domain # leak_batch[1].domain

====
